---- MODULE Spec2Model ----
(***************************************************************************)
(* Model of n8n-nodes-google-pagespeed:                                    *)
(*   utils/apiUtils.ts   classifyError, isRetryableError,                  *)
(*                       makePageSpeedRequest, batchProcessUrls            *)
(*   utils/urlUtils.ts   normalizeUrl, isLikelyXmlUrl,                     *)
(*                       validateUrlContentType                            *)
(*   helpers/            sitemapHelpers.ts, responseFormatter.ts           *)
(*   operations/         analyzeSingleUrl, analyzeMultiple, analyzeSitemap,*)
(*                       compareUrls                                       *)
(* JavaScript runs one continuation at a time, so every action below is    *)
(* the code that runs between two awaits of one async function.            *)
(***************************************************************************)
EXTENDS Integers, Sequences, FiniteSets, TLC

VARIABLES
    configs,          \* ApiRequestConfig[] handed to batchProcessUrls
    additionalFields, \* AdditionalFields of the node parameters
    i,                \* loop variable of batchProcessUrls (0-based chunk start)
    req,              \* req[k]: the makePageSpeedRequest call for configs[k]
    results,          \* the results array of batchProcessUrls
    pc,               \* position of batchProcessUrls
    outOfOrder,       \* history: some request settled before a sibling of lower index
    progress,         \* history: the onProgress calls of batchProcessUrls
    strategy,         \* the 'strategy' node parameter
    urlPairs,         \* urlPairs of analyzeMultipleUrls
    task,             \* task[k]: the async callback of analyzeMultipleUrls for urlPairs[k]
    mreq,             \* mreq[k][s]: the single-shot makePageSpeedRequest for urlPairs[k], strategy s
    rawUrls,          \* the 'urls' node parameter of executeAnalyzeMultiple
    exec,             \* position of executeAnalyzeMultiple
    output,           \* the INodeExecutionData[] it returns
    slept,            \* the delays batchProcessUrls has awaited between chunks, in ms
    single,           \* the state of analyzeSingleUrl: its position, its calls, its results
    rawUrl,           \* the raw string a normalizeUrl is applied to
    norm,             \* what the normalizeUrl functions returned for it, applied once and twice
    sitemap,          \* the state of a fetchSitemapUrls / applyUrlFilters run
    report            \* the state of a response formatter or comparator application

multiVars == <<urlPairs, task, mreq>>
execVars == <<rawUrls, exec, output>>
pureVars == <<rawUrl, norm, sitemap, report>>

vars == <<configs, additionalFields, i, req, results, pc, outOfOrder, progress, strategy,
          multiVars, execVars, slept, single, pureVars>>

----------------------------------------------------------------------------
(* Bounds of the model *)

MaxConfigs == 4
MaxMessageFragments == 1
MaxUrlPairs == 3
MaxBatchSize == 2
MaxRawUrls == 2

(* Program constants *)

MAX_CONCURRENT_REQUESTS == 3
BATCH_DELAY_MS == 1000
DEFAULT_RETRY_ATTEMPTS == 2
RETRY_DELAY_BASE == 1000
RETRY_DELAY_MAX == 10000
MaxRetryAttemptsOption == 5

(* An optional number of the node parameters: Unset when the user left it  *)
(* out (undefined in JavaScript), Given(x) otherwise.                      *)
Unset == <<>>
Given(x) == <<x>>

----------------------------------------------------------------------------
(* Text.  A string is a sequence of fragments; s.includes(x) holds when x  *)
(* is one of the fragments, toLowerCase lowers each fragment.              *)

LowerFragment(f) ==
    CASE f = "ETIMEDOUT" -> "etimedout"
      [] f = "NOT_HTML" -> "not_html"
      [] f = "ECONNREFUSED" -> "econnrefused"
      [] f = "ENOTFOUND" -> "enotfound"
      [] f = "API key" -> "api key"
      [] f = "Quota" -> "quota"
      [] f = "Could not fetch URL" -> "could not fetch url"
      [] f = "Status code 400" -> "status code 400"
      [] f = "Status code 404" -> "status code 404"
      [] f = "Status code 5" -> "status code 5"
      [] f = "Invalid API response: missing lighthouse results"
              -> "invalid api response: missing lighthouse results"
      [] f = "TEXT/HTML" -> "text/html"
      [] f = "Sitemap" -> "sitemap"
      [] f = "Page" -> "page"
      [] OTHER -> f

toLowerCase(s) == [k \in DOMAIN s |-> LowerFragment(s[k])]

includes(s, x) == \E k \in DOMAIN s : s[k] = x

----------------------------------------------------------------------------
(* config.ts *)

AUTHENTICATION_ERROR == "AUTHENTICATION_ERROR"
RATE_LIMITED == "RATE_LIMITED"
QUOTA_EXCEEDED == "QUOTA_EXCEEDED"
TIMEOUT == "TIMEOUT"
NOT_HTML == "NOT_HTML"
NETWORK_ERROR == "NETWORK_ERROR"
API_ERROR == "API_ERROR"
UNKNOWN == "UNKNOWN"
INVALID_CONTENT_TYPE == "INVALID_CONTENT_TYPE"

XML_EXTENSIONS == {".xml", ".rss", ".atom"}
XML_PATHS == {"sitemap", "feed", "rss", "/api/", ".json"}
HTML_CONTENT_TYPE == "text/html"

----------------------------------------------------------------------------
(* utils/apiUtils.ts: error classification.  An error is                   *)
(* [status, message]; status 0 stands for an error without a status code.  *)

classifyError(error) ==
    LET message == toLowerCase(error.message)
        statusCode == error.status
    IN  IF statusCode = 401 \/ includes(message, "authentication")
                            \/ includes(message, "api key")
          THEN AUTHENTICATION_ERROR
        ELSE IF statusCode = 429 \/ includes(message, "rate limit")
                                 \/ includes(message, "quota")
          THEN RATE_LIMITED
        ELSE IF statusCode = 403 /\ (includes(message, "quota")
                                     \/ includes(message, "billing"))
          THEN QUOTA_EXCEEDED
        ELSE IF includes(message, "timeout") \/ includes(message, "ETIMEDOUT")
          THEN TIMEOUT
        ELSE IF includes(message, "not_html") \/ includes(message, "NOT_HTML")
          THEN NOT_HTML
        ELSE IF includes(message, "network") \/ includes(message, "ECONNREFUSED")
                                             \/ includes(message, "ENOTFOUND")
          THEN NETWORK_ERROR
        ELSE IF statusCode >= 400 /\ statusCode < 500
          THEN API_ERROR
        ELSE UNKNOWN

(* isRetryableError with API_ERROR added to the list *)
isRetryableErrorWithApiError(errorType) ==
    errorType \in {TIMEOUT, NETWORK_ERROR, RATE_LIMITED, UNKNOWN, API_ERROR}

(* isRetryableError without UNKNOWN in the list *)
isRetryableErrorKnownOnly(errorType) ==
    errorType \in {TIMEOUT, NETWORK_ERROR, RATE_LIMITED}

isRetryableError(errorType) ==
    errorType \in {TIMEOUT, NETWORK_ERROR, RATE_LIMITED, UNKNOWN}

(* const maxRetries = additionalFields.retryAttempts || DEFAULT_RETRY_ATTEMPTS *)
maxRetries(af) ==
    IF af.retryAttempts = Unset \/ af.retryAttempts = Given(0)
    THEN DEFAULT_RETRY_ATTEMPTS
    ELSE af.retryAttempts[1]

----------------------------------------------------------------------------
(* utils/urlUtils.ts *)

isLikelyXmlUrl(url) ==
    LET urlLower == toLowerCase(url)
    IN  (\E ext \in XML_EXTENSIONS : includes(urlLower, ext))
        \/ (\E path \in XML_PATHS : includes(urlLower, path))

(* A raw URL string is kept in its parts: surrounding white space (pad),   *)
(* leading slashes and dots (junk), the scheme prefix, the labels of the   *)
(* host, the segments of the path and the query parameters.                *)
EmptyString ==
    [pad |-> FALSE, junk |-> FALSE, scheme |-> "", host |-> <<>>, path |-> <<>>,
     query |-> <<>>]

TrackingParams == {"utm_source", "utm_medium", "utm_campaign", "fbclid", "gclid"}

RECURSIVE Dotted(_)
Dotted(labels) ==
    IF Len(labels) <= 1 THEN labels
    ELSE <<Head(labels), ".">> \o Dotted(Tail(labels))

RECURSIVE Slashed(_)
Slashed(segments) ==
    IF segments = <<>> THEN <<>>
    ELSE (IF Head(segments) = "" THEN <<"/">> ELSE <<"/", Head(segments)>>)
         \o Slashed(Tail(segments))

RECURSIVE QueryText(_, _)
QueryText(query, first) ==
    IF query = <<>> THEN <<>>
    ELSE <<IF first THEN "?" ELSE "&", Head(query).name, "=", Head(query).value>>
         \o QueryText(Tail(query), FALSE)

(* urlObj.toString() *)
UrlToString(host, path, query) ==
    <<"https://">> \o Dotted(host)
    \o (IF path = <<>> THEN <<"/">> ELSE Slashed(path))
    \o QueryText(query, TRUE)

(* normalizeUrl without the test of the hostname *)
normalizeUrlNoHostCheck(inputUrl) ==
    LET trimmed == [inputUrl EXCEPT !.pad = FALSE]
        cleaned == [trimmed EXCEPT !.junk = FALSE]
        kept == SelectSeq(cleaned.query, LAMBDA q : q.name \notin TrackingParams)
    IN  IF inputUrl = EmptyString THEN [ok |-> FALSE, url |-> <<>>]
        ELSE IF trimmed = EmptyString THEN [ok |-> FALSE, url |-> <<>>]
        ELSE IF cleaned = EmptyString THEN [ok |-> FALSE, url |-> <<>>]
        ELSE [ok |-> TRUE, url |-> UrlToString(cleaned.host, cleaned.path, kept)]

(* normalizeUrl that lets the hostname localhost pass *)
normalizeUrlLocalhost(inputUrl) ==
    LET trimmed == [inputUrl EXCEPT !.pad = FALSE]
        cleaned == [trimmed EXCEPT !.junk = FALSE]
        kept == SelectSeq(cleaned.query, LAMBDA q : q.name \notin TrackingParams)
    IN  IF inputUrl = EmptyString THEN [ok |-> FALSE, url |-> <<>>]
        ELSE IF trimmed = EmptyString THEN [ok |-> FALSE, url |-> <<>>]
        ELSE IF cleaned = EmptyString THEN [ok |-> FALSE, url |-> <<>>]
        ELSE IF cleaned.host = <<>> THEN [ok |-> FALSE, url |-> <<>>]
        ELSE IF Len(cleaned.host) < 2 /\ cleaned.host # <<"localhost">>
        THEN [ok |-> FALSE, url |-> <<>>]
        ELSE [ok |-> TRUE, url |-> UrlToString(cleaned.host, cleaned.path, kept)]

(* normalizeUrl(inputUrl): [ok |-> TRUE, url] or [ok |-> FALSE] for a throw *)
normalizeUrl(inputUrl) ==
    LET trimmed == [inputUrl EXCEPT !.pad = FALSE]
        cleaned == [trimmed EXCEPT !.junk = FALSE]
        kept == SelectSeq(cleaned.query, LAMBDA q : q.name \notin TrackingParams)
    IN  IF inputUrl = EmptyString THEN [ok |-> FALSE, url |-> <<>>]
        ELSE IF trimmed = EmptyString THEN [ok |-> FALSE, url |-> <<>>]
        ELSE IF cleaned = EmptyString THEN [ok |-> FALSE, url |-> <<>>]
        ELSE IF cleaned.host = <<>> THEN [ok |-> FALSE, url |-> <<>>]
        ELSE IF Len(cleaned.host) < 2 THEN [ok |-> FALSE, url |-> <<>>]
        ELSE [ok |-> TRUE, url |-> UrlToString(cleaned.host, cleaned.path, kept)]

(* batchNormalizeUrls(rawUrls) *)
batchNormalizeUrls(raws) ==
    [k \in 1..Len(raws) |->
        IF normalizeUrl(raws[k]).ok
        THEN [original |-> raws[k], normalized |-> normalizeUrl(raws[k]).url,
              error |-> FALSE]
        ELSE [original |-> raws[k], normalized |-> <<>>, error |-> TRUE]]

(* the string the parts of a raw URL stand for *)
RawText(parts) ==
    (IF parts.pad THEN <<" ">> ELSE <<>>)
    \o (IF parts.junk THEN <<"/">> ELSE <<>>)
    \o (IF parts.scheme = "" THEN <<>> ELSE <<parts.scheme>>)
    \o Dotted(parts.host) \o Slashed(parts.path) \o QueryText(parts.query, TRUE)

(* the first position of text that holds one of marks, Len(text) + 1 when  *)
(* there is none                                                           *)
FirstIndex(text, marks) ==
    IF \E k \in 1..Len(text) : text[k] \in marks
    THEN CHOOSE k \in 1..Len(text) :
             /\ text[k] \in marks
             /\ \A j \in 1..(k - 1) : text[j] \notin marks
    ELSE Len(text) + 1

(* text without its first n fragments *)
Drop(text, n) == SubSeq(text, n + 1, Len(text))

(* the segments of a path text: one for each slash, empty when the slash   *)
(* is the last fragment or is followed by another slash                    *)
RECURSIVE PathSegments(_)
PathSegments(text) ==
    IF text = <<>> THEN <<>>
    ELSE IF Len(text) = 1 \/ text[2] = "/" THEN <<"">> \o PathSegments(Drop(text, 1))
    ELSE <<text[2]>> \o PathSegments(Drop(text, 2))

(* the parameters of a query text ?name=value&name=value *)
QueryParams(text) ==
    [m \in 1..(Len(text) \div 4) |->
        [name |-> text[4 * m - 2], value |-> text[4 * m]]]

(* The parts of a string, as trim(), the leading-junk replace, the         *)
(* protocol test and new URL(url) take it apart.                           *)
parseInput(text) ==
    LET pad == text # <<>> /\ Head(text) = " "
        t1 == IF pad THEN Tail(text) ELSE text
        junk == t1 # <<>> /\ Head(t1) = "/"
        t2 == IF junk THEN Tail(t1) ELSE t1
        hasScheme == t2 # <<>> /\ Head(t2) \in {"http://", "https://"}
        t3 == IF hasScheme THEN Tail(t2) ELSE t2
        hostEnd == FirstIndex(t3, {"/", "?"})
        pathEnd == FirstIndex(t3, {"?"})
    IN  [pad |-> pad, junk |-> junk,
         scheme |-> IF hasScheme THEN Head(t2) ELSE "",
         host |-> SelectSeq(SubSeq(t3, 1, hostEnd - 1), LAMBDA f : f # "."),
         path |-> PathSegments(SubSeq(t3, hostEnd, pathEnd - 1)),
         query |-> QueryParams(Drop(t3, pathEnd - 1))]

(* validateUrlContentType that reports a failed probe as invalid content *)
validateUrlContentTypeStrict(url, probe) ==
    IF isLikelyXmlUrl(url)
    THEN [isValid |-> FALSE, contentType |-> <<"likely-xml">>]
    ELSE IF probe.kind = "error"
    THEN [isValid |-> FALSE, contentType |-> <<"unknown">>]
    ELSE LET contentType == toLowerCase(probe.contentType)
         IN  [isValid |-> includes(contentType, HTML_CONTENT_TYPE),
              contentType |-> contentType]

(* validateUrlContentType(context, url), given what the HEAD probe does.   *)
(* The pattern check returns before any probe is sent.                     *)
validateUrlContentType(url, probe) ==
    IF isLikelyXmlUrl(url)
    THEN [isValid |-> FALSE, contentType |-> <<"likely-xml">>]
    ELSE IF probe.kind = "error"
    THEN [isValid |-> TRUE, contentType |-> <<"unknown">>]
    ELSE LET contentType == toLowerCase(probe.contentType)
         IN  [isValid |-> includes(contentType, HTML_CONTENT_TYPE),
              contentType |-> contentType]

----------------------------------------------------------------------------
(* What the network can answer *)

ApiOk == [kind |-> "ok", lighthouse |-> TRUE, status |-> 200, message |-> <<>>]
ApiMalformed == [kind |-> "ok", lighthouse |-> FALSE, status |-> 200, message |-> <<>>]
ApiError(status, message) ==
    [kind |-> "error", lighthouse |-> FALSE, status |-> status, message |-> message]

ProbeHtml == [kind |-> "ok", contentType |-> <<"TEXT/HTML">>]
ProbeJson == [kind |-> "ok", contentType |-> <<"application/json">>]
ProbeFails == [kind |-> "error", contentType |-> <<>>]
ProbeOutcomes == {ProbeHtml, ProbeJson, ProbeFails}
NoProbe == [kind |-> "none", contentType |-> <<>>]

(* The answers drawn in a batch run: one success, one failure that is      *)
(* retried and one that is not.                                            *)
BatchApiOutcomes ==
    {ApiOk, ApiError(0, <<"timeout">>), ApiError(401, <<>>)}

(* The answers drawn for a single request: every status below with every  *)
(* message of at most MaxMessageFragments of the fragments the code looks  *)
(* for, in the spellings a server or Node.js uses.                         *)
Statuses == {0, 400, 401, 403, 404, 429, 500}

MessageFragments ==
    {"authentication", "API key", "rate limit", "Quota", "quota", "billing",
     "timeout", "ETIMEDOUT", "not_html", "NOT_HTML", "network",
     "ECONNREFUSED", "ENOTFOUND", "Could not fetch URL", "Status code 400",
     "Status code 404", "Status code 5", "socket hang up"}

Messages ==
    UNION { [1..n -> MessageFragments] : n \in 0..MaxMessageFragments }

ApiOutcomes ==
    {ApiOk, ApiMalformed}
    \cup { ApiError(status, message) : status \in Statuses, message \in Messages }

PageUrl == <<"https://", "a", ".", "com", "/", "page">>
XmlUrl == <<"https://", "a", ".", "com", "/", "Sitemap", ".xml">>

----------------------------------------------------------------------------
(* utils/apiUtils.ts: makePageSpeedRequest *)

NoResult ==
    [req |-> 0, error |-> FALSE, errorType |-> "", url |-> <<>>, strategy |-> "",
     retryCount |-> 0, canRetry |-> FALSE]

(* One call of makePageSpeedRequest.  pc, attempt and result are the       *)
(* call's own state; the other fields are history: sent counts the API     *)
(* requests issued, head tells that a HEAD probe was issued, last is the   *)
(* kind of the last API answer, lastType its classification when it was a  *)
(* failure, all429 tells that every answer so far had status 429, probed   *)
(* is the answer the HEAD probe got, waits are the delays the call has     *)
(* awaited before its retries, in ms.                                      *)
Idle ==
    [pc |-> "idle", attempt |-> 0, sent |-> 0, head |-> FALSE, probed |-> NoProbe,
     last |-> "none", lastType |-> "", all429 |-> TRUE, waits |-> <<>>,
     result |-> NoResult]

(* return response as PageSpeedApiResponse *)
SuccessResult(k) ==
    [req |-> k, error |-> FALSE, errorType |-> "", url |-> configs[k].url,
     strategy |-> configs[k].strategy, retryCount |-> 0, canRetry |-> FALSE]

(* the ErrorResponse objects built by makePageSpeedRequest *)
ErrorResult(k, errorType, retryCount) ==
    [req |-> k, error |-> TRUE, errorType |-> errorType, url |-> configs[k].url,
     strategy |-> configs[k].strategy, retryCount |-> retryCount,
     canRetry |-> FALSE]

(* one pass through the head of the retry loop: the request is sent, or    *)
(* the loop is over and the fallback result is returned                    *)
LoopHead(k, r, attempt) ==
    IF attempt <= maxRetries(additionalFields)
    THEN [r EXCEPT !.pc = "api", !.attempt = attempt, !.sent = @ + 1]
    ELSE [r EXCEPT !.pc = "settled", !.attempt = attempt,
                   !.result = ErrorResult(k, UNKNOWN, maxRetries(additionalFields))]

(* StartRequest with a validateUrlContentType that probes every URL *)
StartRequestProbing(k) ==
    IF ~additionalFields.skipContentValidation
    THEN [Idle EXCEPT !.pc = "probe", !.head = TRUE]
    ELSE LoopHead(k, Idle, 0)

(* makePageSpeedRequest up to its first await *)
StartRequest(k) ==
    IF ~additionalFields.skipContentValidation
    THEN [Idle EXCEPT !.pc = "probe", !.head = ~isLikelyXmlUrl(configs[k].url)]
    ELSE LoopHead(k, Idle, 0)

(* Math.min *)
Min(a, b) == IF a <= b THEN a ELSE b

(* createDelay without the exponent: baseDelay * (attempt + 1) *)
createDelayLinear(attempt, baseDelay) ==
    Min(baseDelay * (attempt + 1), RETRY_DELAY_MAX)

(* createDelay(attempt, baseDelay): the time the returned promise takes *)
createDelay(attempt, baseDelay) ==
    Min(baseDelay * 2 ^ attempt, RETRY_DELAY_MAX)

(* CatchError that rethrows an error it cannot classify *)
CatchErrorRethrow(k, r, error) ==
    LET errorType == classifyError(error)
        isLastAttempt == r.attempt = maxRetries(additionalFields)
        canRetry == isRetryableError(errorType) /\ ~isLastAttempt
    IN  IF ~canRetry /\ errorType = UNKNOWN
        THEN [r EXCEPT !.pc = "threw", !.lastType = errorType]
        ELSE IF ~canRetry
        THEN [r EXCEPT !.pc = "settled", !.lastType = errorType,
                       !.result = ErrorResult(k, errorType, r.attempt)]
        ELSE [r EXCEPT !.pc = "backoff", !.lastType = errorType,
                       !.waits = Append(@, createDelay(r.attempt, RETRY_DELAY_BASE))]

(* the catch block of the retry loop *)
CatchError(k, r, error) ==
    LET errorType == classifyError(error)
        isLastAttempt == r.attempt = maxRetries(additionalFields)
        canRetry == isRetryableError(errorType) /\ ~isLastAttempt
    IN  IF ~canRetry
        THEN [r EXCEPT !.pc = "settled", !.lastType = errorType,
                       !.result = ErrorResult(k, errorType, r.attempt)]
        ELSE [r EXCEPT !.pc = "backoff", !.lastType = errorType,
                       !.waits = Append(@, createDelay(r.attempt, RETRY_DELAY_BASE))]

(* the chunk of the batch loop that is running *)
Chunk(start) ==
    { k \in 1..Len(configs) : start < k /\ k <= start + MAX_CONCURRENT_REQUESTS }

Unsettled(k) == req[k].pc \in {"probe", "api", "backoff"}

SettlesEarly(k) == \E j \in Chunk(i) : j < k /\ Unsettled(j)

(* no onProgress call yet: calls counts the calls, last is the 'completed'  *)
(* value of the latest one, decreased tells that some call got a smaller   *)
(* value than the call before it, miscounted that some call got a value    *)
(* that is not the number of requests settled by then                      *)
NoProgress == [calls |-> 0, last |-> 0, decreased |-> FALSE, miscounted |-> FALSE]

(* the callback of batch.map after await makePageSpeedRequest: when the    *)
(* request of configs[k] has settled in a batch run,                       *)
(* onProgress(i + batchIndex + 1, configs.length) is called                *)
Progressed(k, next) ==
    IF next.pc = "settled" /\ pc = "chunk"
    THEN [calls |-> progress.calls + 1,
          last |-> k,
          decreased |-> progress.decreased \/ (progress.calls > 0 /\ k < progress.last),
          miscounted |-> progress.miscounted \/ k # progress.calls + 1]
    ELSE progress

(* validateUrlContentType returns to makePageSpeedRequest *)
ProbeReturn(k, probe) ==
    /\ req[k].pc = "probe"
    /\ req[k].head \/ probe = ProbeFails
    /\ LET validation == validateUrlContentType(configs[k].url, probe)
           r == [req[k] EXCEPT !.probed = IF req[k].head THEN probe ELSE NoProbe]
           next == IF ~validation.isValid
                   THEN [r EXCEPT !.pc = "settled",
                             !.result = ErrorResult(k, INVALID_CONTENT_TYPE, 0)]
                   ELSE LoopHead(k, r, 0)
       IN  /\ req' = [req EXCEPT ![k] = next]
           /\ outOfOrder' = (outOfOrder \/ (next.pc = "settled" /\ SettlesEarly(k)))
           /\ progress' = Progressed(k, next)
    /\ UNCHANGED <<pureVars, slept, single, strategy, multiVars, execVars, configs, additionalFields, i, results, pc>>

(* context.helpers.request returns or throws *)
ApiReturn(k, response) ==
    /\ req[k].pc = "api"
    /\ LET r == [req[k] EXCEPT
                    !.last = IF response.kind = "error" THEN "error"
                             ELSE IF response.lighthouse THEN "ok" ELSE "malformed",
                    !.all429 = @ /\ response.status = 429]
           next ==
             IF response.kind = "ok" /\ response.lighthouse
             THEN [r EXCEPT !.pc = "settled", !.result = SuccessResult(k)]
             ELSE IF response.kind = "ok"
             THEN CatchError(k, r,
                    [status |-> 0,
                     message |-> <<"Invalid API response: missing lighthouse results">>])
             ELSE CatchError(k, r,
                    [status |-> response.status, message |-> response.message])
       IN  /\ req' = [req EXCEPT ![k] = next]
           /\ outOfOrder' = (outOfOrder \/ (next.pc = "settled" /\ SettlesEarly(k)))
           /\ progress' = Progressed(k, next)
    /\ UNCHANGED <<pureVars, slept, single, strategy, multiVars, execVars, configs, additionalFields, i, results, pc>>

(* createDelay(attempt) resolves, attempt++ *)
BackoffDone(k) ==
    /\ req[k].pc = "backoff"
    /\ req' = [req EXCEPT ![k] = LoopHead(k, req[k], req[k].attempt + 1)]
    /\ UNCHANGED <<pureVars, slept, single, strategy, multiVars, execVars, configs, additionalFields, i, results, pc, outOfOrder, progress>>

----------------------------------------------------------------------------
(* utils/apiUtils.ts: batchProcessUrls *)

(* batch.map(async ...) starts every request of the chunk *)
StartChunk(start) ==
    [k \in 1..Len(configs) |->
        IF k \in Chunk(start) THEN StartRequest(k) ELSE req[k]]

(* Promise.all(batchPromises): the results in the order of the promises *)
PromiseAll(start) ==
    [n \in 1..Cardinality(Chunk(start)) |-> req[start + n].result]

(* ChunkDone with results.unshift(...batchResults) in place of push *)
ChunkDoneUnshift ==
    /\ pc = "chunk"
    /\ \A k \in Chunk(i) : req[k].pc = "settled"
    /\ results' = PromiseAll(i) \o results
    /\ pc' = IF i + MAX_CONCURRENT_REQUESTS < Len(configs) THEN "delay" ELSE "returned"
    /\ slept' = IF pc' = "delay" THEN Append(slept, createDelay(0, BATCH_DELAY_MS)) ELSE slept
    /\ UNCHANGED <<pureVars, single, strategy, multiVars, execVars, configs, additionalFields, i, req, outOfOrder, progress>>

(* ChunkDone that gives up after a chunk holding an error result *)
ChunkDoneFailFast ==
    /\ pc = "chunk"
    /\ \A k \in Chunk(i) : req[k].pc = "settled"
    /\ results' = results \o PromiseAll(i)
    /\ pc' = IF i + MAX_CONCURRENT_REQUESTS < Len(configs)
                 /\ \A k \in Chunk(i) : ~req[k].result.error
             THEN "delay" ELSE "returned"
    /\ slept' = IF pc' = "delay" THEN Append(slept, createDelay(0, BATCH_DELAY_MS)) ELSE slept
    /\ UNCHANGED <<pureVars, single, strategy, multiVars, execVars, configs, additionalFields, i, req, outOfOrder, progress>>

(* ChunkDone that gives up after an AUTHENTICATION_ERROR *)
ChunkDoneAuthAbort ==
    /\ pc = "chunk"
    /\ \A k \in Chunk(i) : req[k].pc = "settled"
    /\ results' = results \o PromiseAll(i)
    /\ pc' = IF i + MAX_CONCURRENT_REQUESTS < Len(configs)
                 /\ \A k \in Chunk(i) : req[k].result.errorType # AUTHENTICATION_ERROR
             THEN "delay" ELSE "returned"
    /\ slept' = IF pc' = "delay" THEN Append(slept, createDelay(0, BATCH_DELAY_MS)) ELSE slept
    /\ UNCHANGED <<pureVars, single, strategy, multiVars, execVars, configs, additionalFields, i, req, outOfOrder, progress>>

(* ChunkDone with Promise.race in place of Promise.all *)
ChunkDoneRace ==
    /\ pc = "chunk"
    /\ \E k \in Chunk(i) : req[k].pc = "settled"
    /\ results' = results \o PromiseAll(i)
    /\ pc' = IF i + MAX_CONCURRENT_REQUESTS < Len(configs) THEN "delay" ELSE "returned"
    /\ slept' = IF pc' = "delay" THEN Append(slept, createDelay(0, BATCH_DELAY_MS)) ELSE slept
    /\ UNCHANGED <<pureVars, single, strategy, multiVars, execVars, configs, additionalFields, i, req, outOfOrder, progress>>

(* ChunkDone that also waits after the last full chunk *)
ChunkDoneDelayAfterLast ==
    /\ pc = "chunk"
    /\ \A k \in Chunk(i) : req[k].pc = "settled"
    /\ results' = results \o PromiseAll(i)
    /\ pc' = IF i + MAX_CONCURRENT_REQUESTS <= Len(configs) THEN "delay" ELSE "returned"
    /\ slept' = IF pc' = "delay" THEN Append(slept, createDelay(0, BATCH_DELAY_MS)) ELSE slept
    /\ UNCHANGED <<pureVars, single, strategy, multiVars, execVars, configs, additionalFields, i, req, outOfOrder, progress>>

(* await Promise.all resolves; results.push(...batchResults) *)
ChunkDone ==
    /\ pc = "chunk"
    /\ \A k \in Chunk(i) : req[k].pc = "settled"
    /\ results' = results \o PromiseAll(i)
    /\ pc' = IF i + MAX_CONCURRENT_REQUESTS < Len(configs) THEN "delay" ELSE "returned"
    /\ slept' = IF pc' = "delay" THEN Append(slept, createDelay(0, BATCH_DELAY_MS)) ELSE slept
    /\ UNCHANGED <<pureVars, single, strategy, multiVars, execVars, configs, additionalFields, i, req, outOfOrder, progress>>

(* createDelay(0, BATCH_DELAY_MS) resolves; i += maxConcurrent; next chunk *)
BatchDelayDone ==
    /\ pc = "delay"
    /\ i' = i + MAX_CONCURRENT_REQUESTS
    /\ req' = StartChunk(i + MAX_CONCURRENT_REQUESTS)
    /\ pc' = "chunk"
    /\ UNCHANGED <<pureVars, slept, single, strategy, multiVars, execVars, configs, additionalFields, results, outOfOrder, progress>>

----------------------------------------------------------------------------
(* The single-shot makePageSpeedRequest(context, apiKey, url, strategy,    *)
(* categories, additionalFields) and its caller analyzeMultipleUrls        *)

DeviceStrategies == {"desktop", "mobile"}

(* the catch block: the error type of the structured result, or "throw"    *)
(* when the error is thrown on to the caller                               *)
enhancedCatch(message) ==
    IF includes(message, "NOT_HTML") \/ includes(message, "Could not fetch URL")
      THEN "NOT_HTML"
    ELSE IF includes(message, "timeout")
      THEN "TIMEOUT"
    ELSE IF includes(message, "quota")
      THEN "QUOTA_EXCEEDED"
    ELSE IF includes(message, "Status code 400") \/ includes(message, "Status code 404")
                                                \/ includes(message, "Status code 5")
      THEN "HTTP_ERROR"
    ELSE "throw"

(* One single-shot call: pc and errorType are its state and result, kind,  *)
(* status and message record the answer it got.                            *)
NoCall ==
    [pc |-> "none", errorType |-> "", kind |-> "", status |-> 0, message |-> <<>>]
InFlightCall == [NoCall EXCEPT !.pc = "flight"]

(* analyzeSingleUrl is not called *)
SingleIdle == [pc |-> "idle", calls |-> <<>>, results |-> <<>>]

(* what the call does with the answer of context.helpers.request *)
EnhancedOutcome(response) ==
    IF response.kind = "ok"
    THEN [pc |-> "returned", errorType |-> "", kind |-> "ok",
          status |-> response.status, message |-> response.message]
    ELSE IF enhancedCatch(response.message) = "throw"
    THEN [pc |-> "threw", errorType |-> "", kind |-> "error",
          status |-> response.status, message |-> response.message]
    ELSE [pc |-> "returned", errorType |-> enhancedCatch(response.message),
          kind |-> "error", status |-> response.status, message |-> response.message]

(* const maxConcurrent = additionalFields?.batchSize || 3 *)
maxConcurrent(af) ==
    IF af.batchSize = Unset \/ af.batchSize = Given(0) THEN 3 ELSE af.batchSize[1]

MultiChunk(start) ==
    { k \in 1..Len(urlPairs) : start < k /\ k <= start + maxConcurrent(additionalFields) }

TaskIdle == [pc |-> "idle", strategy |-> "", errorType |-> "", desktop |-> "", mobile |-> ""]

TaskResult(s, errorType, desktop, mobile) ==
    [pc |-> "settled", strategy |-> s, errorType |-> errorType,
     desktop |-> desktop, mobile |-> mobile]

(* const actualStrategy = strategy === 'auto' ? 'mobile' : strategy *)
actualStrategy(s) == IF s = "auto" THEN "mobile" ELSE s

(* the callback of batch.map up to its first await *)
StartTask(k) ==
    IF urlPairs[k].error
    THEN TaskResult("", "URL_NORMALIZATION_FAILED", "", "")
    ELSE [TaskIdle EXCEPT !.pc = "running"]

StartCalls(k) ==
    [s \in DeviceStrategies |->
        IF urlPairs[k].error THEN NoCall
        ELSE IF strategy = "both" \/ actualStrategy(strategy) = s THEN InFlightCall
        ELSE NoCall]

Other(s) == IF s = "desktop" THEN "mobile" ELSE "desktop"

(* the callback after the answer m of its call for strategy s *)
ResumeTask(k, s, m) ==
    IF task[k].pc # "running" THEN task[k]
    ELSE IF m.pc = "threw" THEN TaskResult("", "ANALYSIS_FAILED", "", "")
    ELSE IF strategy # "both" THEN TaskResult(actualStrategy(strategy), m.errorType, "", "")
    ELSE IF mreq[k][Other(s)].pc = "returned"
    THEN TaskResult("both", "",
                    IF s = "desktop" THEN m.errorType ELSE mreq[k]["desktop"].errorType,
                    IF s = "mobile" THEN m.errorType ELSE mreq[k]["mobile"].errorType)
    ELSE task[k]

(* context.helpers.request of one single-shot call returns or throws *)
MultiReturn(k, s, response) ==
    /\ mreq[k][s].pc = "flight"
    /\ mreq' = [mreq EXCEPT ![k][s] = EnhancedOutcome(response)]
    /\ task' = [task EXCEPT ![k] = ResumeTask(k, s, EnhancedOutcome(response))]
    /\ UNCHANGED <<pureVars, slept, single, configs, additionalFields, i, req, results, pc, outOfOrder, progress,
                   strategy, urlPairs, execVars>>

StartMultiChunk(start) ==
    /\ task' = [k \in 1..Len(urlPairs) |->
                   IF k \in MultiChunk(start) THEN StartTask(k) ELSE task[k]]
    /\ mreq' = [k \in 1..Len(urlPairs) |->
                   IF k \in MultiChunk(start) THEN StartCalls(k) ELSE mreq[k]]

(* await Promise.all(batchPromises) resolves; results.push for each *)
MultiChunkDone ==
    /\ pc = "mchunk"
    /\ \A k \in MultiChunk(i) : task[k].pc = "settled"
    /\ results' = results \o [n \in 1..Cardinality(MultiChunk(i)) |-> task[i + n]]
    /\ pc' = IF i + maxConcurrent(additionalFields) < Len(urlPairs)
             THEN "mdelay" ELSE "mreturned"
    /\ UNCHANGED <<pureVars, slept, single, configs, additionalFields, i, req, outOfOrder, progress, strategy, multiVars,
                   execVars>>

(* delay(1000) resolves; next chunk *)
MultiDelayDone ==
    /\ pc = "mdelay"
    /\ i' = i + maxConcurrent(additionalFields)
    /\ StartMultiChunk(i + maxConcurrent(additionalFields))
    /\ pc' = "mchunk"
    /\ UNCHANGED <<pureVars, slept, single, configs, additionalFields, req, results, outOfOrder, progress, strategy, urlPairs,
                   execVars>>

MultiIdle ==
    /\ urlPairs = <<>>
    /\ task = <<>>
    /\ mreq = <<>>

ExecIdle ==
    /\ rawUrls = <<>>
    /\ exec = "idle"
    /\ output = <<>>

(* no normalizeUrl is applied and no sitemap is fetched; of a sitemap run, *)
(* found, oks and parts are history: the number of <loc> values read, and  *)
(* for each nested sitemap requested so far whether the request and the    *)
(* parse succeeded and the URLs it gave                                    *)
NormIdle == [step |-> 0, first |-> <<>>, second |-> <<>>, pairs |-> <<>>]
NoFilters ==
    [includePattern |-> <<>>, excludePattern |-> <<>>, urlType |-> "", maxUrls |-> Unset]
NoMetadata == [totalUrlsFound |-> 0, urlsToAnalyze |-> 0]

SitemapIdle ==
    [pc |-> "idle", version |-> "", urls |-> <<>>, filters |-> NoFilters,
     filtered |-> <<>>, nested |-> 0, k |-> 0, allUrls |-> <<>>, returned |-> <<>>,
     analyzed |-> <<>>, found |-> 0, metadata |-> NoMetadata, output |-> <<>>,
     oks |-> <<>>, parts |-> <<>>]

(* no response is formatted and nothing is compared *)
ReportIdle == [pc |-> "idle"]

PureIdle ==
    /\ rawUrl = EmptyString
    /\ norm = NormIdle
    /\ sitemap = SitemapIdle
    /\ report = ReportIdle

(* analyzeMultipleUrls is called; every third URL fails to normalize *)
UrlPair(k) == [error |-> (k % 3 = 0)]

MultiApiOutcomes ==
    {ApiOk, ApiError(0, <<"timeout">>), ApiError(0, <<"ECONNREFUSED">>)}

Metadata ==
    [type |-> "analysis-metadata", totalUrls |-> Len(urlPairs)]

InitMultiple ==
    /\ \E n \in 0..MaxUrlPairs : urlPairs = [k \in 1..n |-> UrlPair(k)]
    /\ strategy \in {"mobile", "desktop", "both", "auto"}
    /\ \E b \in {Unset} \cup { Given(n) : n \in 1..MaxBatchSize } :
           additionalFields = [retryAttempts |-> Unset, skipContentValidation |-> FALSE,
                               batchSize |-> b, retryFailed |-> FALSE]
    /\ configs = <<>>
    /\ req = <<>>
    /\ ExecIdle
    /\ PureIdle
    /\ i = 0
    /\ outOfOrder = FALSE
    /\ progress = NoProgress
    /\ slept = <<>>
    /\ single = SingleIdle
    /\ results = <<Metadata>>
    /\ pc = IF urlPairs = <<>> THEN "mreturned" ELSE "mchunk"
    /\ task = [k \in 1..Len(urlPairs) |->
                  IF k \in MultiChunk(0) THEN StartTask(k) ELSE TaskIdle]
    /\ mreq = [k \in 1..Len(urlPairs) |->
                  IF k \in MultiChunk(0) THEN StartCalls(k)
                  ELSE [s \in DeviceStrategies |-> NoCall]]

NextMultiple ==
    \/ \E k \in 1..Len(urlPairs), s \in DeviceStrategies, response \in MultiApiOutcomes :
           MultiReturn(k, s, response)
    \/ MultiChunkDone
    \/ MultiDelayDone

SpecMultiple == InitMultiple /\ [][NextMultiple]_vars

----------------------------------------------------------------------------
(* operations/analyzeSingleUrl.ts: analyzeSingleUrl *)

(* one makePageSpeedRequest(context, apiKey, finalUrl, s, ...) of the      *)
(* operation: the strategy it puts into the request and the call's state   *)
SingleCall(s) == [strategy |-> s, call |-> InFlightCall]

SingleResult(s, errorType, retried) ==
    [strategy |-> s, errorType |-> errorType, retried |-> retried]

(* the calls made in the try block *)
FirstCalls ==
    IF strategy = "both"
    THEN <<SingleCall("desktop"), SingleCall("mobile")>>
    ELSE <<SingleCall(actualStrategy(strategy))>>

(* the catch block of the operation, up to its await or its return *)
SingleCatch(calls) ==
    IF additionalFields.retryFailed
    THEN [pc |-> "delay", calls |-> calls, results |-> <<>>]
    ELSE [pc |-> "returned", calls |-> calls,
          results |-> <<SingleResult("", "ANALYSIS_FAILED", FALSE)>>]

(* the operation after call c got outcome m; calls holds the outcome *)
SingleResume(c, m, calls) ==
    IF single.pc = "first" /\ m.pc = "threw" THEN SingleCatch(calls)
    ELSE IF single.pc = "first" /\ strategy # "both"
    THEN [pc |-> "returned", calls |-> calls,
          results |-> <<SingleResult(actualStrategy(strategy), m.errorType, FALSE)>>]
    ELSE IF single.pc = "first" /\ \A d \in 1..Len(calls) : calls[d].call.pc = "returned"
    THEN [pc |-> "returned", calls |-> calls,
          results |-> <<SingleResult("both", "", FALSE)>>]
    ELSE IF single.pc = "retry" /\ c = Len(calls) /\ m.pc = "threw"
    THEN [pc |-> "returned", calls |-> calls,
          results |-> <<SingleResult("", "RETRY_ATTEMPTED_FINAL_FAIL", FALSE)>>]
    ELSE IF single.pc = "retry" /\ c = Len(calls)
    THEN [pc |-> "returned", calls |-> calls,
          results |-> <<SingleResult(calls[c].strategy, m.errorType, TRUE)>>]
    ELSE [single EXCEPT !.calls = calls]

(* context.helpers.request of call c returns or throws *)
SingleReturn(c, response) ==
    /\ single.calls[c].call.pc = "flight"
    /\ single' = SingleResume(c, EnhancedOutcome(response),
                     [single.calls EXCEPT ![c].call = EnhancedOutcome(response)])
    /\ UNCHANGED <<configs, additionalFields, i, req, results, pc, outOfOrder, progress, strategy,
                   multiVars, execVars, slept, pureVars>>

(* delay(2000) resolves and the retry request is made *)
SingleDelayDone ==
    /\ single.pc = "delay"
    /\ single' = [single EXCEPT
                     !.pc = "retry",
                     !.calls = Append(@, SingleCall(IF strategy = "auto" THEN "mobile"
                                                    ELSE strategy))]
    /\ UNCHANGED <<configs, additionalFields, i, req, results, pc, outOfOrder, progress, strategy,
                   multiVars, execVars, slept, pureVars>>

(* analyzeSingleUrl(context, apiKey, itemIndex) is called and runs up to   *)
(* its first await, or throws for a missing URL or one that does not       *)
(* normalize                                                               *)
InitSingle ==
    /\ strategy \in {"mobile", "desktop", "both", "auto"}
    /\ \E f \in BOOLEAN :
           additionalFields = [retryAttempts |-> Unset, skipContentValidation |-> FALSE,
                               batchSize |-> Unset, retryFailed |-> f]
    /\ configs = <<>>
    /\ req = <<>>
    /\ MultiIdle
    /\ ExecIdle
    /\ PureIdle
    /\ i = 0
    /\ results = <<>>
    /\ outOfOrder = FALSE
    /\ progress = NoProgress
    /\ slept = <<>>
    /\ pc = "single"
    /\ \E hasFinalUrl \in BOOLEAN :
           single = IF hasFinalUrl
                    THEN [pc |-> "first", calls |-> FirstCalls, results |-> <<>>]
                    ELSE [pc |-> "threw", calls |-> <<>>, results |-> <<>>]

(* the answers drawn for the operation: a success, two failures the call   *)
(* turns into a structured result and one it throws on                     *)
SingleApiOutcomes ==
    {ApiOk, ApiError(0, <<"timeout">>), ApiError(404, <<"Status code 404">>),
     ApiError(0, <<"ECONNREFUSED">>)}

NextSingle ==
    \/ \E c \in 1..Len(single.calls), response \in SingleApiOutcomes :
           SingleReturn(c, response)
    \/ SingleDelayDone

SpecSingle == InitSingle /\ [][NextSingle]_vars

----------------------------------------------------------------------------
(* The normalizeUrl functions of the monolithic node files *)

paramsToRemove ==
    {"utm_source", "utm_medium", "utm_campaign", "utm_content", "utm_term",
     "fbclid", "gclid"}

(* the number of characters of a fragment *)
Length(f) ==
    CASE f \in {"a", "0", "1", ".", "/", "b", "c", "x"} -> 1
      [] f \in {"com", "127"} -> 3
      [] f \in {"blog", "page", "Page", "feed"} -> 4
      [] f = "admin" -> 5
      [] f = "doc.pdf" -> 7
      [] f = "https://" -> 8
      [] f = "example" -> 7
      [] f = "localhost" -> 9
      [] OTHER -> 10

RECURSIVE TextLength(_)
TextLength(text) ==
    IF text = <<>> THEN 0 ELSE Length(Head(text)) + TextLength(Tail(text))

(* urlObj.pathname: the parser gives a URL without a path the root path *)
Pathname(path) == IF path = <<>> THEN <<"">> ELSE path

(* if (cleanUrl.endsWith('/') && cleanUrl.length > urlObj.origin.length + 1) *)
(*     cleanUrl = cleanUrl.slice(0, -1)                                      *)
(* No query value of the model ends with a slash, so the text ends with     *)
(* one exactly when it has no query and its last path segment is empty.     *)
SliceTrailingSlash(path, query) ==
    IF query = <<>> /\ Len(path) > 1 /\ path[Len(path)] = ""
    THEN SubSeq(path, 1, Len(path) - 1)
    ELSE path

(* normalizeUrl of nodes/GooglePageSpeed/GooglePageSpeed.node.ts *)
normalizeUrlMonolith(inputUrl) ==
    LET trimmed == [inputUrl EXCEPT !.pad = FALSE]
        cleaned == [trimmed EXCEPT !.junk = FALSE]
        kept == SelectSeq(cleaned.query, LAMBDA q : q.name \notin paramsToRemove)
    IN  IF inputUrl = EmptyString THEN [ok |-> FALSE, url |-> <<>>]
        ELSE IF trimmed = EmptyString THEN [ok |-> FALSE, url |-> <<>>]
        ELSE IF cleaned = EmptyString THEN [ok |-> FALSE, url |-> <<>>]
        ELSE IF cleaned.host = <<>> \/ TextLength(Dotted(cleaned.host)) < 3
        THEN [ok |-> FALSE, url |-> <<>>]
        ELSE IF ~includes(Dotted(cleaned.host), ".") THEN [ok |-> FALSE, url |-> <<>>]
        ELSE [ok |-> TRUE,
              url |-> UrlToString(cleaned.host,
                          SliceTrailingSlash(Pathname(cleaned.path), kept), kept)]

(* the rewritten normalizeUrl of the later monolithic node file *)
normalizeUrlRewritten(inputUrl) ==
    LET trimmed == [inputUrl EXCEPT !.pad = FALSE]
        cleaned == [trimmed EXCEPT !.junk = FALSE]
        kept == SelectSeq(cleaned.query, LAMBDA q : q.name \notin paramsToRemove)
    IN  IF inputUrl = EmptyString THEN [ok |-> FALSE, url |-> <<>>]
        ELSE IF trimmed = EmptyString THEN [ok |-> FALSE, url |-> <<>>]
        ELSE IF cleaned = EmptyString THEN [ok |-> FALSE, url |-> <<>>]
        ELSE IF cleaned.host = <<>> THEN [ok |-> FALSE, url |-> <<>>]
        ELSE IF ~includes(Dotted(cleaned.host), ".") /\ cleaned.host # <<"localhost">>
        THEN [ok |-> FALSE, url |-> <<>>]
        ELSE [ok |-> TRUE,
              url |-> UrlToString(cleaned.host,
                          SliceTrailingSlash(Pathname(cleaned.path), kept), kept)]

----------------------------------------------------------------------------
(* A normalizeUrl is applied to a raw string, and then to its own result *)

MaxQueryParams == 2

Hosts ==
    {<<"a", "com">>, <<"example", "com">>, <<"127", "0", "0", "1">>,
     <<"localhost">>, <<"notadomain">>}

Paths == {<<>>, <<"">>, <<"page">>, <<"page", "">>, <<"page", "", "">>}

ParamNames == paramsToRemove \cup {"id"}

Queries ==
    UNION { [1..n -> { [name |-> p, value |-> "x"] : p \in ParamNames }] :
              n \in 0..MaxQueryParams }

(* the raw strings: white space or junk only, or a host with any           *)
(* decoration                                                              *)
RawInputs ==
    { [EmptyString EXCEPT !.pad = pad, !.junk = junk] : pad, junk \in BOOLEAN }
    \cup { [pad |-> pad, junk |-> junk, scheme |-> scheme, host |-> host,
            path |-> path, query |-> query] :
             pad \in BOOLEAN, junk \in BOOLEAN,
             scheme \in {"", "http://", "https://"},
             host \in Hosts, path \in Paths, query \in Queries }

Versions == {"utils", "monolith", "rewritten"}

(* the normalizeUrl of each source file *)
Normalize(version, raw) ==
    CASE version = "utils" -> normalizeUrl(raw)
      [] version = "monolith" -> normalizeUrlMonolith(raw)
      [] version = "rewritten" -> normalizeUrlRewritten(raw)

(* normalizeUrl(rawUrl) and batchNormalizeUrls([rawUrl]) are called *)
ApplyNormalize ==
    /\ norm.step = 0
    /\ norm' = [step |-> 1,
                first |-> [v \in Versions |-> Normalize(v, rawUrl)],
                second |-> <<>>,
                pairs |-> batchNormalizeUrls(<<rawUrl>>)]
    /\ UNCHANGED <<configs, additionalFields, i, req, results, pc, outOfOrder, progress, strategy,
                   multiVars, execVars, slept, single, rawUrl, sitemap, report>>

(* normalizeUrl is called with the string it returned *)
ApplyAgain ==
    /\ norm.step = 1
    /\ norm' = [norm EXCEPT
                   !.step = 2,
                   !.second = [v \in Versions |->
                                  IF norm.first[v].ok
                                  THEN Normalize(v, parseInput(norm.first[v].url))
                                  ELSE norm.first[v]]]
    /\ UNCHANGED <<configs, additionalFields, i, req, results, pc, outOfOrder, progress, strategy,
                   multiVars, execVars, slept, single, rawUrl, sitemap, report>>

InitNormalize ==
    /\ rawUrl \in RawInputs
    /\ norm = NormIdle
    /\ sitemap = SitemapIdle
    /\ report = ReportIdle
    /\ additionalFields = [retryAttempts |-> Unset, skipContentValidation |-> FALSE,
                           batchSize |-> Unset, retryFailed |-> FALSE]
    /\ strategy = "mobile"
    /\ configs = <<>>
    /\ req = <<>>
    /\ MultiIdle
    /\ rawUrls = <<>>
    /\ exec = "idle"
    /\ output = <<>>
    /\ i = 0
    /\ results = <<>>
    /\ outOfOrder = FALSE
    /\ progress = NoProgress
    /\ slept = <<>>
    /\ single = SingleIdle
    /\ pc = "normalize"

NextNormalize ==
    \/ ApplyNormalize
    \/ ApplyAgain

SpecNormalize == InitNormalize /\ [][NextNormalize]_vars

----------------------------------------------------------------------------
(* helpers/sitemapHelpers.ts: isValidPageUrl, applyUrlFilters.  A pattern   *)
(* or a path mark is a text of its own, found in a URL when its fragments   *)
(* are consecutive fragments of the URL.                                    *)

DEFAULT_MAX_URLS == 50

(* text.includes(token) for a token of several fragments *)
Contains(text, token) ==
    \E k \in 0..(Len(text) - Len(token)) : SubSeq(text, k + 1, k + Len(token)) = token

(* the file extension a fragment ends with *)
Extension(f) ==
    CASE f = "doc.pdf" -> ".pdf"
      [] OTHER -> ""

(* text.endsWith(ext) *)
endsWith(text, ext) ==
    text # <<>> /\ (text[Len(text)] = ext \/ Extension(text[Len(text)]) = ext)

(* the place of a fragment in the order of UTF-16 code units *)
Rank(f) ==
    CASE f = "." -> 1
      [] f = "/" -> 2
      [] f = "Page" -> 3
      [] f = "a" -> 4
      [] f = "admin" -> 5
      [] f = "b" -> 6
      [] f = "blog" -> 7
      [] f = "c" -> 8
      [] f = "com" -> 9
      [] f = "doc.pdf" -> 10
      [] f = "feed" -> 11
      [] f = "https://" -> 12
      [] f = "notadomain" -> 13
      [] f = "page" -> 14
      [] f = "x" -> 15
      [] OTHER -> 16

(* a <= b in the order Array.prototype.sort() compares strings by *)
RECURSIVE TextLessEq(_, _)
TextLessEq(a, b) ==
    IF a = <<>> THEN TRUE
    ELSE IF b = <<>> THEN FALSE
    ELSE IF Rank(Head(a)) < Rank(Head(b)) THEN TRUE
    ELSE IF Rank(Head(a)) > Rank(Head(b)) THEN FALSE
    ELSE TextLessEq(Tail(a), Tail(b))

(* a.length - b.length <= 0 *)
ShorterOrEqual(a, b) == TextLength(a) <= TextLength(b)

(* the compare functions: none (the order of the strings) and              *)
(* (a, b) => a.length - b.length                                           *)
LessEq(compare, a, b) ==
    IF compare = "length" THEN ShorterOrEqual(a, b) ELSE TextLessEq(a, b)

(* Array.prototype.sort(compare): a stable sort *)
RECURSIVE InsertBy(_, _, _)
InsertBy(x, s, compare) ==
    IF s = <<>> THEN <<x>>
    ELSE IF LessEq(compare, Head(s), x)
    THEN <<Head(s)>> \o InsertBy(x, Tail(s), compare)
    ELSE <<x>> \o s

RECURSIVE SortBy(_, _)
SortBy(s, compare) ==
    IF s = <<>> THEN <<>>
    ELSE InsertBy(s[Len(s)], SortBy(SubSeq(s, 1, Len(s) - 1), compare), compare)

(* Array.prototype.slice(0, n) for n >= 0 *)
slice(s, n) == SubSeq(s, 1, Min(n, Len(s)))

excludeExtensions ==
    {".xml", ".pdf", ".doc", ".docx", ".zip", ".jpg", ".jpeg", ".png", ".gif",
     ".svg", ".css", ".js", ".json"}

excludePaths ==
    {<<"/", "api", "/">>, <<"/", "admin", "/">>, <<"/", "wp-admin", "/">>,
     <<"/", "wp-content", "/">>}

(* isValidPageUrl(url): new URL(url) throws for a string without a scheme  *)
(* or without a host                                                       *)
isValidPageUrl(url) ==
    LET urlObj == parseInput(url)
        pathLower == toLowerCase(Slashed(Pathname(urlObj.path)))
    IN  IF urlObj.scheme = "" \/ urlObj.host = <<>> THEN FALSE
        ELSE IF TextLength(Dotted(urlObj.host)) < 3 THEN FALSE
        ELSE IF \E ext \in excludeExtensions : endsWith(pathLower, ext) THEN FALSE
        ELSE IF \E path \in excludePaths : Contains(pathLower, path) THEN FALSE
        ELSE IF isLikelyXmlUrl(url) THEN FALSE
        ELSE TRUE

(* the first loop of applyUrlFilters: normalizeUrl(rawUrl) of every raw    *)
(* URL, without those that throw and those that are no page URL            *)
RECURSIVE NormalizedPages(_)
NormalizedPages(urls) ==
    IF urls = <<>> THEN <<>>
    ELSE LET normalizedUrl == normalizeUrl(parseInput(Head(urls)))
         IN  (IF normalizedUrl.ok /\ isValidPageUrl(normalizedUrl.url)
              THEN <<normalizedUrl.url>> ELSE <<>>)
             \o NormalizedPages(Tail(urls))

(* url.toLowerCase().includes(pattern.toLowerCase()) *)
includesPattern(url, pattern) == Contains(toLowerCase(url), toLowerCase(pattern))

PostMarks ==
    {<<"/", "blog", "/">>, <<"/", "post", "/">>, <<"/", "news", "/">>,
     <<"/", "article", "/">>}

(* the URL type filter that keeps the blog posts for 'pages' *)
urlTypeFilterSwapped(urls, urlType) ==
    IF urlType = "posts"
    THEN SelectSeq(urls, LAMBDA url :
             \A mark \in PostMarks : ~Contains(toLowerCase(url), mark))
    ELSE IF urlType = "pages"
    THEN SelectSeq(urls, LAMBDA url :
             \E mark \in PostMarks : Contains(toLowerCase(url), mark))
    ELSE urls

(* the URL type filter of applyUrlFilters *)
urlTypeFilter(urls, urlType) ==
    IF urlType = "pages"
    THEN SelectSeq(urls, LAMBDA url :
             \A mark \in PostMarks : ~Contains(toLowerCase(url), mark))
    ELSE IF urlType = "posts"
    THEN SelectSeq(urls, LAMBDA url :
             \E mark \in PostMarks : Contains(toLowerCase(url), mark))
    ELSE urls

(* Remove duplicates (case-insensitive): the first of each kept *)
RECURSIVE removeDuplicates(_, _)
removeDuplicates(urls, seen) ==
    IF urls = <<>> THEN <<>>
    ELSE LET urlLower == toLowerCase(Head(urls))
         IN  IF urlLower \in seen THEN removeDuplicates(Tail(urls), seen)
             ELSE <<Head(urls)>> \o removeDuplicates(Tail(urls), seen \cup {urlLower})

(* const maxUrls = filters.maxUrls || PAGESPEED_CONFIG.DEFAULT_MAX_URLS *)
maxUrls(filters) ==
    IF filters.maxUrls = Unset \/ filters.maxUrls = Given(0)
    THEN DEFAULT_MAX_URLS
    ELSE filters.maxUrls[1]

(* the include pattern filter; a pattern is kept as the list of its        *)
(* comma-separated, trimmed, non-empty tokens                              *)
includeFilter(urls, filters) ==
    IF filters.includePattern # <<>>
    THEN SelectSeq(urls, LAMBDA url :
             \E k \in DOMAIN filters.includePattern :
                 includesPattern(url, filters.includePattern[k]))
    ELSE urls

(* the exclude pattern filter *)
excludeFilter(urls, filters) ==
    IF filters.excludePattern # <<>>
    THEN SelectSeq(urls, LAMBDA url :
             ~\E k \in DOMAIN filters.excludePattern :
                 includesPattern(url, filters.excludePattern[k]))
    ELSE urls

(* the max URLs limit *)
limitUrls(urls, filters) ==
    IF Len(urls) > maxUrls(filters) THEN slice(urls, maxUrls(filters)) ELSE urls

(* applyUrlFilters without the max URLs limit *)
applyUrlFiltersUnlimited(urls, filters) ==
    SortBy(removeDuplicates(
               urlTypeFilter(excludeFilter(includeFilter(NormalizedPages(urls), filters),
                                           filters),
                             filters.urlType), {}), "text")

(* applyUrlFilters(urls, filters): normalize, include, exclude, URL type,  *)
(* duplicates, limit, sort                                                 *)
applyUrlFilters(urls, filters) ==
    SortBy(limitUrls(removeDuplicates(
               urlTypeFilter(excludeFilter(includeFilter(NormalizedPages(urls), filters),
                                           filters),
                             filters.urlType), {}), filters), "text")

----------------------------------------------------------------------------
(* applyUrlFilters of the later sitemap helpers.  A pattern written        *)
(* between two slashes is the regular expression between them, tested      *)
(* without regard to case; the patterns of the model have no regular       *)
(* expression operator, so the test is that of a substring.                *)

nonHtmlExtensions ==
    {".xml", ".json", ".pdf", ".jpg", ".jpeg", ".png", ".gif", ".webp", ".svg",
     ".css", ".js", ".txt", ".csv", ".zip", ".rar"}

matchesPattern(url, pattern) ==
    IF Head(pattern) = "/" /\ pattern[Len(pattern)] = "/"
    THEN Contains(toLowerCase(url),
                  toLowerCase(SubSeq(pattern, 2, Len(pattern) - 1)))
    ELSE includesPattern(url, pattern)

(* the first loop: normalizeUrl(rawUrl, 'sitemap filtering') *)
RECURSIVE NormalizedUrls(_)
NormalizedUrls(urls) ==
    IF urls = <<>> THEN <<>>
    ELSE LET normalizedUrl == normalizeUrl(parseInput(Head(urls)))
         IN  (IF normalizedUrl.ok THEN <<normalizedUrl.url>> ELSE <<>>)
             \o NormalizedUrls(Tail(urls))

ProductMarks == {<<"/", "product">>, <<"/", "shop">>, <<"/", "store">>, <<"/", "item">>}
LandingMarks ==
    {<<"/", "landing">>, <<"/", "lp", "/">>, <<"/", "campaign">>, <<"/", "promo">>}

urlTypeSwitch(urls, urlType) ==
    CASE urlType \in {"pages", "posts"} -> urlTypeFilter(urls, urlType)
      [] urlType = "products" ->
            SelectSeq(urls, LAMBDA url :
                \E mark \in ProductMarks : Contains(toLowerCase(url), mark))
      [] urlType = "landing" ->
            SelectSeq(urls, LAMBDA url :
                \E mark \in LandingMarks : Contains(toLowerCase(url), mark))
      [] OTHER -> urls

includeMatching(urls, filters) ==
    IF filters.includePattern # <<>>
    THEN SelectSeq(urls, LAMBDA url :
             \E k \in DOMAIN filters.includePattern :
                 matchesPattern(url, filters.includePattern[k]))
    ELSE urls

excludeMatching(urls, filters) ==
    IF filters.excludePattern # <<>>
    THEN SelectSeq(urls, LAMBDA url :
             ~\E k \in DOMAIN filters.excludePattern :
                 matchesPattern(url, filters.excludePattern[k]))
    ELSE urls

htmlOnly(urls) ==
    SelectSeq(urls, LAMBDA url :
        ~\E ext \in nonHtmlExtensions : endsWith(toLowerCase(url), ext))

(* sort by length and slice, only when there are more than maxUrls *)
shortestUrls(urls, filters) ==
    IF Len(urls) > maxUrls(filters)
    THEN slice(SortBy(urls, "length"), maxUrls(filters))
    ELSE urls

(* applyUrlFilters(urls, filters): normalize, include, exclude, URL type,  *)
(* extensions, limit                                                       *)
applyUrlFiltersEnhanced(urls, filters) ==
    shortestUrls(htmlOnly(urlTypeSwitch(
                     excludeMatching(includeMatching(NormalizedUrls(urls), filters),
                                     filters),
                     filters.urlType)), filters)

----------------------------------------------------------------------------
(* applyUrlFilters(urls, filters) of both sitemap helpers is applied to a  *)
(* list of URLs                                                            *)

MaxSitemapUrls == 3

SitemapPage(path) ==
    RawText([pad |-> FALSE, junk |-> FALSE, scheme |-> "https://",
             host |-> <<"a", "com">>, path |-> path, query |-> <<>>])

(* the <loc> values: pages, a post, an admin page, a page that differs     *)
(* from another in case only, a document, and a string that is no URL      *)
SitemapEntries ==
    { SitemapPage(path) :
        path \in {<<"blog", "a">>, <<"page", "b">>, <<"admin", "c">>, <<"Page", "b">>,
                  <<"blog">>, <<"doc.pdf">>} }
    \cup {<<"notadomain", "/", "x">>}

UrlLists == UNION { [1..n -> SitemapEntries] : n \in 0..MaxSitemapUrls }

IncludePatterns == {<<>>, <<<<"/", "blog", "/">>>>, <<<<"Page">>, <<"/", "blog", "/">>>>}
ExcludePatterns == {<<>>, <<<<"/", "admin", "/">>>>, <<<<"/", "blog", "/">>>>}
UrlTypes == {"all", "pages", "posts"}

FilterVersions == {"helpers", "enhanced"}

ApplyFilters ==
    /\ sitemap.pc = "filter"
    /\ sitemap' = [sitemap EXCEPT
                      !.pc = "filtered",
                      !.filtered =
                          [version \in FilterVersions |->
                              IF version = "helpers"
                              THEN applyUrlFilters(sitemap.urls, sitemap.filters)
                              ELSE applyUrlFiltersEnhanced(sitemap.urls, sitemap.filters)]]
    /\ UNCHANGED <<configs, additionalFields, i, req, results, pc, outOfOrder, progress, strategy,
                   multiVars, execVars, slept, single, rawUrl, norm, report>>

InitFilters ==
    /\ \E urls \in UrlLists, include \in IncludePatterns, exclude \in ExcludePatterns,
          urlType \in UrlTypes, limit \in {Unset, Given(2)} :
          sitemap = [SitemapIdle EXCEPT
                        !.pc = "filter",
                        !.urls = urls,
                        !.filters = [includePattern |-> include,
                                     excludePattern |-> exclude,
                                     urlType |-> urlType, maxUrls |-> limit]]
    /\ rawUrl = EmptyString
    /\ norm = NormIdle
    /\ report = ReportIdle
    /\ additionalFields = [retryAttempts |-> Unset, skipContentValidation |-> FALSE,
                           batchSize |-> Unset, retryFailed |-> FALSE]
    /\ strategy = "mobile"
    /\ configs = <<>>
    /\ req = <<>>
    /\ MultiIdle
    /\ ExecIdle
    /\ i = 0
    /\ results = <<>>
    /\ outOfOrder = FALSE
    /\ progress = NoProgress
    /\ slept = <<>>
    /\ single = SingleIdle
    /\ pc = "filters"

NextFilters == ApplyFilters

SpecFilters == InitFilters /\ [][NextFilters]_vars

----------------------------------------------------------------------------
(* fetchSitemapUrls(context, sitemapUrl, filters) of both sitemap helpers, *)
(* and what the analyzeSitemap operation that called it goes on with.  A   *)
(* sitemap is kept as the list of its <loc> values.                        *)

MaxNested == 2
MaxLocs == 2
MaxNestedLocs == 1

maxSitemapsToProcess == 10
sitemapsToFetch == 5

(* [...new Set(urls)] *)
RECURSIVE uniqueUrls(_, _)
uniqueUrls(urls, seen) ==
    IF urls = <<>> THEN <<>>
    ELSE IF Head(urls) \in seen THEN uniqueUrls(Tail(urls), seen)
    ELSE <<Head(urls)>> \o uniqueUrls(Tail(urls), seen \cup {Head(urls)})

(* parseSitemapXml(xmlContent) of helpers/sitemapHelpers.ts *)
parseSitemapXml(locs) ==
    SortBy(uniqueUrls(SelectSeq(locs, isValidPageUrl), {}), "text")

(* parseSitemapXml(xmlContent, filters) of the later helpers, for filters  *)
(* without priorityOnly                                                    *)
parseSitemapXmlEnhanced(locs, filters) == applyUrlFiltersEnhanced(locs, filters)

(* a page of another site *)
OtherSitePage ==
    RawText([pad |-> FALSE, junk |-> FALSE, scheme |-> "https://",
             host |-> <<"b", "com">>, path |-> <<"page", "b">>, query |-> <<>>])

LocLists ==
    UNION { [1..n -> {SitemapPage(<<"page", "b">>), SitemapPage(<<"blog", "a">>),
                      OtherSitePage}] :
              n \in 0..MaxLocs }

(* the <loc> values of a nested sitemap *)
NestedLocLists ==
    UNION { [1..n -> {SitemapPage(<<"page", "b">>), OtherSitePage}] :
              n \in 0..MaxNestedLocs }

(* what the request for a nested sitemap gives: an error or a sitemap *)
NestedOutcomes ==
    {[ok |-> FALSE, locs |-> <<>>]}
    \cup {[ok |-> TRUE, locs |-> locs] : locs \in NestedLocLists}

SitemapUnchanged ==
    UNCHANGED <<configs, additionalFields, i, req, results, pc, outOfOrder, progress, strategy,
                multiVars, execVars, slept, single, rawUrl, norm, report>>

(* the request for the sitemap fails: fetchSitemapUrls throws *)
FetchFails ==
    /\ sitemap.pc = "fetch"
    /\ sitemap' = [sitemap EXCEPT !.pc = "failed"]
    /\ SitemapUnchanged

(* the response is a sitemap of pages *)
FetchLeaf ==
    /\ sitemap.pc = "fetch"
    /\ \E locs \in LocLists :
          sitemap' = [sitemap EXCEPT
                         !.pc = "returned",
                         !.urls = locs,
                         !.found = Len(locs),
                         !.returned =
                             IF sitemap.version = "helpers"
                             THEN applyUrlFilters(parseSitemapXml(locs), sitemap.filters)
                             ELSE parseSitemapXmlEnhanced(locs, sitemap.filters)]
    /\ SitemapUnchanged

(* the response is a sitemap index of n sitemaps *)
FetchIndex ==
    /\ sitemap.pc = "fetch"
    /\ \E n \in 0..MaxNested :
          sitemap' =
              IF n = 0
              THEN [sitemap EXCEPT !.pc = "returned", !.returned = <<>>]
              ELSE [sitemap EXCEPT
                       !.pc = "nested",
                       !.nested = Min(n, IF sitemap.version = "helpers"
                                         THEN maxSitemapsToProcess
                                         ELSE sitemapsToFetch),
                       !.k = 1]
    /\ SitemapUnchanged

(* what fetchSitemapUrls returns after the last nested sitemap *)
IndexResult(version, allUrls, filters) ==
    IF version = "helpers" THEN applyUrlFilters(allUrls, filters) ELSE allUrls

(* NestedReturn without the try around the nested request: a failure ends *)
(* fetchSitemapUrls                                                      *)
NestedReturnFatal ==
    /\ sitemap.pc = "nested"
    /\ \E outcome \in NestedOutcomes :
          LET urls == IF ~outcome.ok THEN <<>>
                      ELSE IF sitemap.version = "helpers"
                      THEN parseSitemapXml(outcome.locs)
                      ELSE parseSitemapXmlEnhanced(outcome.locs, sitemap.filters)
              allUrls == sitemap.allUrls \o urls
              last == sitemap.k = sitemap.nested
              seen == [sitemap EXCEPT !.allUrls = allUrls,
                                      !.found = @ + Len(outcome.locs),
                                      !.oks = Append(@, outcome.ok),
                                      !.parts = Append(@, urls)]
          IN  sitemap' =
                  IF ~outcome.ok
                  THEN [seen EXCEPT !.pc = "failed"]
                  ELSE IF last
                  THEN [seen EXCEPT
                           !.pc = "returned",
                           !.returned = IndexResult(sitemap.version, allUrls,
                                                    sitemap.filters)]
                  ELSE IF outcome.ok /\ sitemap.version = "helpers"
                  THEN [seen EXCEPT !.pc = "pause"]
                  ELSE [seen EXCEPT !.k = sitemap.k + 1]
    /\ SitemapUnchanged

(* the request for nested sitemap k settles *)
NestedReturn ==
    /\ sitemap.pc = "nested"
    /\ \E outcome \in NestedOutcomes :
          LET urls == IF ~outcome.ok THEN <<>>
                      ELSE IF sitemap.version = "helpers"
                      THEN parseSitemapXml(outcome.locs)
                      ELSE parseSitemapXmlEnhanced(outcome.locs, sitemap.filters)
              allUrls == sitemap.allUrls \o urls
              last == sitemap.k = sitemap.nested
              seen == [sitemap EXCEPT !.allUrls = allUrls,
                                      !.found = @ + Len(outcome.locs),
                                      !.oks = Append(@, outcome.ok),
                                      !.parts = Append(@, urls)]
          IN  sitemap' =
                  IF last
                  THEN [seen EXCEPT
                           !.pc = "returned",
                           !.returned = IndexResult(sitemap.version, allUrls,
                                                    sitemap.filters)]
                  ELSE IF outcome.ok /\ sitemap.version = "helpers"
                  THEN [seen EXCEPT !.pc = "pause"]
                  ELSE [seen EXCEPT !.k = sitemap.k + 1]
    /\ SitemapUnchanged

(* the 500 ms between two nested sitemaps are over *)
PauseDone ==
    /\ sitemap.pc = "pause"
    /\ sitemap' = [sitemap EXCEPT !.pc = "nested", !.k = sitemap.k + 1]
    /\ SitemapUnchanged

(* generateSitemapMetadata(sitemapUrl, totalFound, filteredCount, filters) *)
generateSitemapMetadata(totalFound, filteredCount) ==
    [totalUrlsFound |-> totalFound, urlsToAnalyze |-> filteredCount]

(* the 'sitemap-metadata' record the later operation pushes before it      *)
(* analyzes                                                                *)
sitemapMetadata(urls, filters) ==
    [totalUrlsFound |-> Len(urls),
     urlsToAnalyze |-> Min(Len(urls), maxUrls(filters))]

(* createSitemapConfigs(urls, strategy, ...): the number of configs *)
createSitemapConfigs(urls, s) == Len(urls) * (IF s = "both" THEN 2 ELSE 1)

(* analyzeUrlDistribution(urls).domains *)
domains(urls) == { parseInput(urls[k]).host : k \in 1..Len(urls) }

(* n items of one type *)
Items(n, type) == [k \in 1..n |-> type]

(* analyzeSitemap goes on with the list: it throws for an empty one; the   *)
(* later operation pushes its metadata record and takes                    *)
(* urls.slice(0, urlFilters.maxUrls || 50), the operation of               *)
(* operations/analyzeSitemap.ts takes every URL                            *)
AnalyzeStart ==
    /\ sitemap.pc = "returned"
    /\ sitemap' =
          IF sitemap.returned = <<>>
          THEN [sitemap EXCEPT !.pc = "failed"]
          ELSE IF sitemap.version = "helpers"
          THEN [sitemap EXCEPT !.pc = "analyzing", !.analyzed = sitemap.returned]
          ELSE [sitemap EXCEPT
                   !.pc = "analyzing",
                   !.metadata = sitemapMetadata(sitemap.returned, sitemap.filters),
                   !.output = <<"sitemap-metadata">>,
                   !.analyzed = slice(sitemap.returned, maxUrls(sitemap.filters))]
    /\ SitemapUnchanged

(* every request of the analysis has settled and the operation returns its *)
(* items: operations/analyzeSitemap.ts the metadata, a domain summary when *)
(* the URLs are of several domains, and one result for each config; the    *)
(* later operation one result for each URL and a summary                   *)
AnalyzeDone ==
    /\ sitemap.pc = "analyzing"
    /\ sitemap' =
          IF sitemap.version = "helpers"
          THEN [sitemap EXCEPT
                   !.pc = "done",
                   !.metadata = generateSitemapMetadata(Len(sitemap.analyzed),
                                                        Len(sitemap.analyzed)),
                   !.output =
                       <<"sitemap-metadata">>
                       \o (IF Cardinality(domains(sitemap.analyzed)) > 1
                           THEN <<"domain-summary">> ELSE <<>>)
                       \o Items(createSitemapConfigs(sitemap.analyzed, strategy),
                                "result")]
          ELSE [sitemap EXCEPT
                   !.pc = "done",
                   !.output = sitemap.output \o Items(Len(sitemap.analyzed), "result")
                              \o <<"sitemap-summary">>]
    /\ SitemapUnchanged

SitemapStrategies == {"mobile", "both"}

InitSitemap ==
    /\ \E version \in FilterVersions, urlType \in {"", "pages"},
          limit \in {Unset, Given(0), Given(1), Given(2)} :
          sitemap = [SitemapIdle EXCEPT
                        !.pc = "fetch",
                        !.version = version,
                        !.filters = [NoFilters EXCEPT !.urlType = urlType,
                                                      !.maxUrls = limit]]
    /\ rawUrl = EmptyString
    /\ norm = NormIdle
    /\ report = ReportIdle
    /\ additionalFields = [retryAttempts |-> Unset, skipContentValidation |-> FALSE,
                           batchSize |-> Unset, retryFailed |-> FALSE]
    /\ strategy \in SitemapStrategies
    /\ configs = <<>>
    /\ req = <<>>
    /\ MultiIdle
    /\ ExecIdle
    /\ i = 0
    /\ results = <<>>
    /\ outOfOrder = FALSE
    /\ progress = NoProgress
    /\ slept = <<>>
    /\ single = SingleIdle
    /\ pc = "sitemap"

NextSitemap ==
    \/ FetchFails
    \/ FetchLeaf
    \/ FetchIndex
    \/ NestedReturn
    \/ PauseDone
    \/ AnalyzeStart
    \/ AnalyzeDone

SpecSitemap == InitSitemap /\ [][NextSitemap]_vars

----------------------------------------------------------------------------
(* The category scores of helpers/responseFormatter.ts: extractScores for  *)
(* formatResponse, and the scores of formatEnhancedResponse.  A score of   *)
(* the API is a number of thousandths (873 is 0.873), NullScore where the  *)
(* API gives score: null, NoCategory where the category is not in the      *)
(* response; the three values that are no number are kept as negative      *)
(* numbers.                                                                *)

NoCategory == 0 - 1
NullScore == 0 - 2
NaN == 0 - 3

(* a result without a scores field *)
NoScores == [c \in {} |-> 0]

(* the thousandths t for which the double (t / 1000) * 100 is just below   *)
(* a half although t / 10 is a half: 0.575 * 100 is 57.49999999999999      *)
BelowHalf == {145, 285, 565, 575}

(* Math.round(score * 100) for a score of t thousandths *)
MathRound100(t) == IF t \in BelowHalf THEN t \div 10 ELSE (t + 5) \div 10

(* Math.round(category?.score * 100): without the || 0 *)
categoryScoreNoDefault(category) ==
    IF category \in {NoCategory, NullScore} THEN NaN ELSE MathRound100(category)

(* Math.round((category?.score || 0) * 100) *)
categoryScore(category) ==
    IF category \in {NoCategory, NullScore} THEN 0 ELSE MathRound100(category)

FourCategories == {"performance", "accessibility", "bestPractices", "seo"}
Categories == FourCategories \cup {"pwa"}

(* extractScores(response) *)
extractScores(categories) == [c \in FourCategories |-> categoryScore(categories[c])]

(* formatResponse(response, ...).scores: an error response gives a result  *)
(* without scores                                                          *)
formatResponse(response) ==
    IF response.error THEN NoScores ELSE extractScores(response.categories)

(* formatEnhancedResponse(response, ...).scores *)
formatEnhancedResponse(response) ==
    IF response.error THEN [c \in FourCategories |-> 0]
    ELSE [c \in Categories |->
            IF c = "pwa" /\ response.categories[c] = NoCategory THEN NoCategory
            ELSE categoryScore(response.categories[c])]

(* the scores the API gives for a category of the model *)
ApiScores == {NoCategory, NullScore, 0, 4, 5, 575, 873, 1000}

(* the responses handed to the formatters: an ErrorResponse, or a response *)
(* with its categories                                                     *)
Responses ==
    {[error |-> TRUE, categories |-> [c \in Categories |-> NoCategory]]}
    \cup { [error |-> FALSE, categories |-> cs] :
             cs \in { f \in [Categories -> ApiScores] :
                        f["pwa"] \in {NoCategory, NullScore, 1000} } }

ReportUnchanged ==
    UNCHANGED <<configs, additionalFields, i, req, results, pc, outOfOrder, progress, strategy,
                multiVars, execVars, slept, single, rawUrl, norm, sitemap>>

(* every variable but report is at rest *)
OnlyReport ==
    /\ rawUrl = EmptyString
    /\ norm = NormIdle
    /\ sitemap = SitemapIdle
    /\ additionalFields = [retryAttempts |-> Unset, skipContentValidation |-> FALSE,
                           batchSize |-> Unset, retryFailed |-> FALSE]
    /\ strategy = "mobile"
    /\ configs = <<>>
    /\ req = <<>>
    /\ MultiIdle
    /\ ExecIdle
    /\ i = 0
    /\ results = <<>>
    /\ outOfOrder = FALSE
    /\ progress = NoProgress
    /\ slept = <<>>
    /\ single = SingleIdle

(* formatResponse and formatEnhancedResponse are applied to the response *)
FormatScores ==
    /\ report.pc = "format"
    /\ report' = [report EXCEPT
                     !.pc = "formatted",
                     !.scores = [formatResponse |-> formatResponse(report.response),
                                 formatEnhancedResponse |->
                                     formatEnhancedResponse(report.response)]]
    /\ ReportUnchanged

InitScores ==
    /\ \E response \in Responses :
          report = [pc |-> "format", response |-> response, scores |-> <<>>]
    /\ OnlyReport
    /\ pc = "scores"

NextScores == FormatScores

SpecScores == InitScores /\ [][NextScores]_vars

----------------------------------------------------------------------------
(* createComparison(url, baseline, current, comparisonType) of             *)
(* operations/compareUrls.ts, for two analyses that have scores.  A metric *)
(* is a number of milliseconds or NullMetric (extractMetrics gives null    *)
(* for a metric the response lacks and for a metric of 0).                 *)

NullMetric == 0 - 1

ComparedMetrics ==
    {"firstContentfulPaint", "largestContentfulPaint", "cumulativeLayoutShift",
     "speedIndex", "timeToInteractive", "totalBlockingTime"}

(* a value that is neither null nor 0 *)
Truthy(x) == x # NullMetric /\ x # 0

(* calculateScoreDifferences(baseline, current) *)
calculateScoreDifferences(baseline, current) ==
    [c \in FourCategories |-> current[c] - baseline[c]]

(* calculateMetricDifferences(baseline, current) *)
calculateMetricDifferences(baseline, current) ==
    [m \in { n \in ComparedMetrics : Truthy(baseline[n]) /\ Truthy(current[n]) } |->
        current[m] - baseline[m]]

(* values.filter(test).length for the values of an object *)
CountOf(object, Test(_)) == Cardinality({ key \in DOMAIN object : Test(object[key]) })

Positive(diff) == diff > 0
Negative(diff) == diff < 0

(* determineImprovement with >= for > *)
determineImprovementOnTie(scoreDifferences, metricDifferences) ==
    CountOf(scoreDifferences, Positive) + CountOf(metricDifferences, Negative)
        >= CountOf(scoreDifferences, Negative) + CountOf(metricDifferences, Positive)

(* determineImprovement(scoreDifferences, metricDifferences) *)
determineImprovement(scoreDifferences, metricDifferences) ==
    CountOf(scoreDifferences, Positive) + CountOf(metricDifferences, Negative)
        > CountOf(scoreDifferences, Negative) + CountOf(metricDifferences, Positive)

(* createComparison: the fields of its result that are computed *)
createComparison(baseline, current) ==
    LET scoreDifferences == calculateScoreDifferences(baseline.scores, current.scores)
        metricDifferences == calculateMetricDifferences(baseline.metrics, current.metrics)
    IN  [scoreDifferences |-> scoreDifferences,
         metricDifferences |-> metricDifferences,
         improvement |-> determineImprovement(scoreDifferences, metricDifferences)]

(* the analyses that are compared: scores of 60 and 80, two metrics that   *)
(* vary and four that are the same in both analyses                        *)
ComparedScores == [FourCategories -> {60, 80}]

VaryingMetrics == {"firstContentfulPaint", "cumulativeLayoutShift"}

MetricsOf(varying, rest) ==
    [m \in ComparedMetrics |-> IF m \in VaryingMetrics THEN varying[m] ELSE rest]

CompareDone ==
    /\ report.pc = "compare"
    /\ report' = [report EXCEPT
                     !.pc = "compared",
                     !.comparison = createComparison(report.baseline, report.current)]
    /\ ReportUnchanged

InitCompare ==
    /\ \E baseline \in ComparedScores, current \in ComparedScores,
          before \in [VaryingMetrics -> {NullMetric, 100, 200}],
          after \in [VaryingMetrics -> {NullMetric, 100, 200}],
          rest \in {NullMetric, 100} :
          report = [pc |-> "compare",
                    baseline |-> [scores |-> baseline, metrics |-> MetricsOf(before, rest)],
                    current |-> [scores |-> current, metrics |-> MetricsOf(after, rest)],
                    comparison |-> <<>>]
    /\ OnlyReport
    /\ pc = "compare"

NextCompare == CompareDone

SpecCompare == InitCompare /\ [][NextCompare]_vars

----------------------------------------------------------------------------
(* The catch block of makePageSpeedRequest takes an error at attempt 0 of  *)
(* a request with retries left: classifyError(error), and canRetry =       *)
(* isRetryableError(errorType) && !isLastAttempt.                          *)

ClassifyDone ==
    /\ report.pc = "classify"
    /\ report' = [report EXCEPT
                     !.pc = "classified",
                     !.errorType = classifyError(report.error),
                     !.canRetry = isRetryableError(classifyError(report.error))
                                  /\ 0 # maxRetries(additionalFields)]
    /\ ReportUnchanged

InitClassify ==
    /\ \E status \in Statuses, message \in Messages :
          report = [pc |-> "classify", error |-> [status |-> status, message |-> message],
                    errorType |-> "", canRetry |-> FALSE]
    /\ OnlyReport
    /\ pc = "classify"

NextClassify == ClassifyDone

SpecClassify == InitClassify /\ [][NextClassify]_vars

----------------------------------------------------------------------------
(* batchProcessUrls(context, apiKey, configs, additionalFields) is called  *)

Config(k) ==
    [url |-> IF k % 4 = 2 THEN XmlUrl ELSE PageUrl,
     strategy |-> IF k % 2 = 1 THEN "mobile" ELSE "desktop"]

BatchRetryOptions == {Unset, Given(0), Given(1)}

Init ==
    /\ \E n \in 0..MaxConfigs : configs = [k \in 1..n |-> Config(k)]
    /\ \E r \in BatchRetryOptions, s \in BOOLEAN :
           additionalFields = [retryAttempts |-> r, skipContentValidation |-> s,
                               batchSize |-> Unset, retryFailed |-> FALSE]
    /\ strategy = "mobile"
    /\ MultiIdle
    /\ ExecIdle
    /\ PureIdle
    /\ i = 0
    /\ results = <<>>
    /\ outOfOrder = FALSE
    /\ progress = NoProgress
    /\ slept = <<>>
    /\ single = SingleIdle
    /\ pc = IF configs = <<>> THEN "returned" ELSE "chunk"
    /\ req = [k \in 1..Len(configs) |->
                 IF k \in Chunk(0) THEN StartRequest(k) ELSE Idle]

Next ==
    \/ \E k \in 1..Len(configs), probe \in ProbeOutcomes : ProbeReturn(k, probe)
    \/ \E k \in 1..Len(configs), response \in BatchApiOutcomes : ApiReturn(k, response)
    \/ \E k \in 1..Len(configs) : BackoffDone(k)
    \/ ChunkDone
    \/ BatchDelayDone

Spec == Init /\ [][Next]_vars

----------------------------------------------------------------------------
(* makePageSpeedRequest(context, apiKey, config, additionalFields) is      *)
(* called once, with every documented value of retryAttempts               *)

RetryOptions == {Unset} \cup { Given(r) : r \in 0..MaxRetryAttemptsOption }

InitRequest ==
    /\ \E url \in {PageUrl, XmlUrl}, device \in DeviceStrategies :
           configs = <<[url |-> url, strategy |-> device]>>
    /\ \E r \in RetryOptions, s \in BOOLEAN :
           additionalFields = [retryAttempts |-> r, skipContentValidation |-> s,
                               batchSize |-> Unset, retryFailed |-> FALSE]
    /\ strategy = "mobile"
    /\ MultiIdle
    /\ ExecIdle
    /\ PureIdle
    /\ i = 0
    /\ results = <<>>
    /\ outOfOrder = FALSE
    /\ progress = NoProgress
    /\ slept = <<>>
    /\ single = SingleIdle
    /\ pc = "request"
    /\ req = <<StartRequest(1)>>

NextRequest ==
    \/ \E k \in 1..Len(req), probe \in ProbeOutcomes : ProbeReturn(k, probe)
    \/ \E k \in 1..Len(req), response \in ApiOutcomes : ApiReturn(k, response)
    \/ \E k \in 1..Len(req) : BackoffDone(k)

SpecRequest == InitRequest /\ [][NextRequest]_vars

(* a call of either makePageSpeedRequest *)
InitVariants == InitRequest \/ InitMultiple

NextVariants == NextRequest \/ NextMultiple

SpecVariants == InitVariants /\ [][NextVariants]_vars

----------------------------------------------------------------------------
(* operations/analyzeMultiple.ts: executeAnalyzeMultiple *)

validUrls == SelectSeq(batchNormalizeUrls(rawUrls), LAMBDA pair : ~pair.error)
invalidUrls == SelectSeq(batchNormalizeUrls(rawUrls), LAMBDA pair : pair.error)

RECURSIVE createBatchConfigs(_, _)
createBatchConfigs(pairs, s) ==
    IF pairs = <<>> THEN <<>>
    ELSE (IF s = "both"
          THEN <<[url |-> Head(pairs).normalized, strategy |-> "mobile"],
                 [url |-> Head(pairs).normalized, strategy |-> "desktop"]>>
          ELSE <<[url |-> Head(pairs).normalized, strategy |-> s]>>)
         \o createBatchConfigs(Tail(pairs), s)

(* formatResponse(response, outputFormat, config.strategy, originalUrl)    *)
(* with the batch metadata                                                 *)
BatchResult(n) ==
    [originalUrl |-> validUrls[n].original,
     strategy |-> IF results[n].error THEN results[n].strategy ELSE configs[n].strategy,
     error |-> results[n].error, errorType |-> results[n].errorType,
     batchIndex |-> n]

InvalidResult(pair) ==
    [originalUrl |-> pair.original, strategy |-> strategy, error |-> TRUE,
     errorType |-> "INVALID_URL", batchIndex |-> 0]

Summary ==
    [originalUrl |-> EmptyString, strategy |-> "", error |-> FALSE,
     errorType |-> "batch-summary", batchIndex |-> 0]

(* batchProcessUrls has returned: the formatting loop and the return.      *)
(* validUrls[n] is undefined beyond the valid URLs, and reading .original  *)
(* of it throws, which the catch turns into a NodeOperationError.          *)
ExecuteResume ==
    /\ exec = "running"
    /\ pc = "returned"
    /\ IF \E n \in 1..Len(results) : n > Len(validUrls)
       THEN /\ exec' = "threw"
            /\ output' = <<>>
       ELSE /\ exec' = "returned"
            /\ output' = <<Summary>>
                          \o [n \in 1..Len(results) |-> BatchResult(n)]
                          \o [n \in 1..Len(invalidUrls) |-> InvalidResult(invalidUrls[n])]
    /\ UNCHANGED <<pureVars, slept, single, configs, additionalFields, i, req, results, pc, outOfOrder, progress, strategy,
                   multiVars, rawUrls>>

RawPage ==
    [pad |-> TRUE, junk |-> FALSE, scheme |-> "http://", host |-> <<"a", "com">>,
     path |-> <<"page">>, query |-> <<[name |-> "utm_source", value |-> "x"]>>]
RawNoDomain ==
    [pad |-> FALSE, junk |-> TRUE, scheme |-> "", host |-> <<"notadomain">>,
     path |-> <<>>, query |-> <<>>]
RawUrlChoices == {RawPage, RawNoDomain, EmptyString}

(* executeAnalyzeMultiple(context, apiKey) is called and runs up to the    *)
(* await of batchProcessUrls, or throws before it                          *)
InitExecute ==
    /\ \E n \in 0..MaxRawUrls : rawUrls \in [1..n -> RawUrlChoices]
    /\ strategy \in {"mobile", "desktop", "both"}
    /\ \E s \in BOOLEAN :
           additionalFields = [retryAttempts |-> Given(1), skipContentValidation |-> s,
                               batchSize |-> Unset, retryFailed |-> FALSE]
    /\ MultiIdle
    /\ PureIdle
    /\ output = <<>>
    /\ i = 0
    /\ results = <<>>
    /\ outOfOrder = FALSE
    /\ progress = NoProgress
    /\ slept = <<>>
    /\ single = SingleIdle
    /\ exec = IF rawUrls = <<>> \/ validUrls = <<>> THEN "threw" ELSE "running"
    /\ configs = IF validUrls = <<>> THEN <<>> ELSE createBatchConfigs(validUrls, strategy)
    /\ pc = IF configs = <<>> THEN "idle" ELSE "chunk"
    /\ req = [k \in 1..Len(configs) |->
                 IF k \in Chunk(0) THEN StartRequest(k) ELSE Idle]

NextExecute ==
    \/ Next
    \/ ExecuteResume

SpecExecute == InitExecute /\ [][NextExecute]_vars

----------------------------------------------------------------------------
(* Properties of batchProcessUrls, checked under Spec *)

ChunkOf(k) == (k - 1) \div MAX_CONCURRENT_REQUESTS

(* C1: batchProcessUrls returns exactly one entry per input config, and    *)
(* entry k is the result of the request made for configs[k], whatever the  *)
(* order in which the requests of a chunk complete.                        *)
OrderPreserved ==
    /\ \A k \in 1..Len(results) : results[k].req = k /\ results[k] = req[k].result
    /\ pc = "returned" => Len(results) = Len(configs)

OrderPreservedWitness ==
    /\ pc = "returned"
    /\ outOfOrder
    /\ Len(configs) > MAX_CONCURRENT_REQUESTS
    /\ Len(results) = Len(configs)

(* C2: a config whose request fails permanently gets its own error-tagged  *)
(* result, and every other config of the same chunk and of later chunks    *)
(* still gets its own result, the one its own last answer determines.      *)
FailureIsolated ==
    pc = "returned" =>
        /\ Len(results) = Len(configs)
        /\ \A k \in 1..Len(configs) :
              /\ req[k].last = "ok" => results[k] = SuccessResult(k)
              /\ req[k].last = "error" =>
                    /\ results[k].error
                    /\ results[k].errorType = req[k].lastType
                    /\ results[k].errorType # ""
                    /\ results[k].req = k
              /\ req[k].last = "none" =>
                    results[k] = ErrorResult(k, INVALID_CONTENT_TYPE, 0)

FailureIsolatedWitness ==
    /\ pc = "returned"
    /\ Len(configs) > MAX_CONCURRENT_REQUESTS
    /\ Len(results) = Len(configs)
    /\ results[3].errorType = TIMEOUT
    /\ results[3].retryCount = maxRetries(additionalFields)
    /\ req[3].sent = maxRetries(additionalFields) + 1
    /\ results[1] = SuccessResult(1)
    /\ results[4] = SuccessResult(4)

(* C3: no request of chunk k+1 starts until every request of chunk k has   *)
(* settled; inside one chunk the requests settle in any order.             *)
ChunkBarrier ==
    \A j, k \in 1..Len(configs) :
        ChunkOf(j) < ChunkOf(k) /\ req[k].pc # "idle" => req[j].pc = "settled"

ChunkBarrierWitness ==
    /\ outOfOrder
    /\ \E k \in 1..Len(configs) : ChunkOf(k) = 1 /\ req[k].pc # "idle"

----------------------------------------------------------------------------
(* Properties of makePageSpeedRequest, checked under SpecRequest *)

Failed(r) == r.last \in {"error", "malformed"}

(* C5: a further attempt follows a failed attempt only if the failure is   *)
(* classified TIMEOUT, NETWORK_ERROR, RATE_LIMITED or UNKNOWN; a failure    *)
(* classified AUTHENTICATION_ERROR, QUOTA_EXCEEDED, NOT_HTML or API_ERROR   *)
(* ends the request after that attempt with an error result.               *)
RetryOnlyRetryable ==
    \A k \in 1..Len(req) :
        /\ req[k].pc = "backoff" \/ (req[k].pc = "api" /\ req[k].sent > 1) =>
              req[k].lastType \in {TIMEOUT, NETWORK_ERROR, RATE_LIMITED, UNKNOWN}
        /\ Failed(req[k]) /\ req[k].lastType \in
                {AUTHENTICATION_ERROR, QUOTA_EXCEEDED, NOT_HTML, API_ERROR} =>
              /\ req[k].pc = "settled"
              /\ req[k].result = ErrorResult(k, req[k].lastType, req[k].attempt)
              /\ req[k].sent = req[k].attempt + 1

RetryOnlyRetryableWitness ==
    /\ req[1].pc = "settled"
    /\ req[1].sent = 2
    /\ req[1].lastType = API_ERROR
    /\ req[1].result.retryCount = 1
    /\ maxRetries(additionalFields) = 3

(* C6: with retryAttempts = r in 0..5 at most r + 1 API requests are sent  *)
(* for one config, and at most 3 when retryAttempts is not set.            *)
AtMostConfiguredTries ==
    \A k \in 1..Len(req) :
        req[k].sent <= (IF additionalFields.retryAttempts = Unset
                        THEN DEFAULT_RETRY_ATTEMPTS
                        ELSE additionalFields.retryAttempts[1]) + 1

(* C7: when every attempt fails with status 429 the request makes exactly  *)
(* maxRetries + 1 attempts and returns RATE_LIMITED, canRetry = false,     *)
(* retryCount = maxRetries.                                                *)
RateLimitedAfterRetries ==
    \A k \in 1..Len(req) :
        req[k].pc = "settled" /\ req[k].sent >= 1 /\ req[k].all429 =>
            /\ req[k].sent = maxRetries(additionalFields) + 1
            /\ req[k].result =
                  ErrorResult(k, RATE_LIMITED, maxRetries(additionalFields))
            /\ ~req[k].result.canRetry

----------------------------------------------------------------------------
(* Properties of both makePageSpeedRequest functions, checked under        *)
(* SpecVariants                                                            *)

ErrorTypes ==
    {AUTHENTICATION_ERROR, RATE_LIMITED, QUOTA_EXCEEDED, TIMEOUT, NOT_HTML,
     NETWORK_ERROR, API_ERROR, UNKNOWN, INVALID_CONTENT_TYPE}

StructuredError(k) ==
    /\ req[k].result.error
    /\ req[k].result.errorType \in ErrorTypes
    /\ req[k].result.url = configs[k].url
    /\ req[k].result.strategy = configs[k].strategy

IsAuthFailure(status, message) ==
    \/ status = 401
    \/ \E k \in DOMAIN message : message[k] \in {"authentication", "API key", "api key"}

HandledFragments ==
    {"NOT_HTML", "Could not fetch URL", "timeout", "quota", "Status code 400",
     "Status code 404", "Status code 5"}

----------------------------------------------------------------------------
(* Requests in flight, checked under SpecMultiple *)

InFlight ==
    Cardinality({ k \in 1..Len(req) : req[k].pc = "api" })
    + Cardinality({ c \in (1..Len(urlPairs)) \X DeviceStrategies :
                      mreq[c[1]][c[2]].pc = "flight" })

WindowSize ==
    IF pc \in {"mchunk", "mdelay", "mreturned"}
    THEN maxConcurrent(additionalFields)
    ELSE MAX_CONCURRENT_REQUESTS

(* C4: at every moment of a batch run the number of PageSpeed API requests *)
(* in flight is at most the configured window size, for every strategy.    *)
InFlightWithinWindow == InFlight <= WindowSize

----------------------------------------------------------------------------
(* Properties of executeAnalyzeMultiple, checked under SpecExecute *)

(* C10: executeAnalyzeMultiple throws if and only if the URL list is empty *)
(* or no URL normalizes; with at least one URL that normalizes it returns  *)
(* a result list, for every strategy and every mix of request outcomes.    *)
ThrowsOnlyWithoutUrls ==
    /\ exec = "threw" <=> (rawUrls = <<>> \/ validUrls = <<>>)
    /\ exec = "returned" => Len(output) >= 2

(* the entries of the output made for raw input x with errorType t *)
OutputsFor(x, t) ==
    { n \in 1..Len(output) : output[n].originalUrl = x /\ output[n].errorType = t }

(* the positions of the input list that hold raw input x *)
InputsOf(x) == { n \in 1..Len(rawUrls) : rawUrls[n] = x }

(* C11: once the operation is over for a list with a URL that normalizes,  *)
(* it has returned; every input that fails normalization has exactly one   *)
(* output entry tagged INVALID_URL with the original input and the error,  *)
(* no config and so no API request was made for it, and every input that   *)
(* normalizes has a result of its own.                                     *)
InvalidUrlTagged ==
    (exec # "running" /\ validUrls # <<>>) =>
        /\ exec = "returned"
        /\ \A n \in 1..Len(rawUrls) :
              IF normalizeUrl(rawUrls[n]).ok
              THEN \E m \in 1..Len(output) :
                       /\ output[m].originalUrl = rawUrls[n]
                       /\ output[m].batchIndex > 0
              ELSE /\ Cardinality(OutputsFor(rawUrls[n], "INVALID_URL"))
                         = Cardinality(InputsOf(rawUrls[n]))
                   /\ \A m \in OutputsFor(rawUrls[n], "INVALID_URL") : output[m].error
        /\ \A k \in 1..Len(configs) :
              \E n \in 1..Len(rawUrls) :
                  /\ normalizeUrl(rawUrls[n]).ok
                  /\ configs[k].url = normalizeUrl(rawUrls[n]).url

----------------------------------------------------------------------------
(* The delays of batchProcessUrls, checked under Spec *)

(* the number of chunks n configs are cut into *)
ChunkCount(n) == (n + MAX_CONCURRENT_REQUESTS - 1) \div MAX_CONCURRENT_REQUESTS

(* C12: batchProcessUrls waits one delay of BATCH_DELAY_MS between the end *)
(* of a chunk and the start of the next and none after the last chunk: no  *)
(* request of the next chunk is started while the delay runs, and a run    *)
(* over n configs has taken ceil(n / 3) - 1 delays, 0 when n <= 3.         *)
InterBatchDelays ==
    /\ \A d \in 1..Len(slept) : slept[d] = BATCH_DELAY_MS
    /\ pc = "chunk" => i = MAX_CONCURRENT_REQUESTS * Len(slept)
    /\ pc = "delay" =>
          /\ i = MAX_CONCURRENT_REQUESTS * (Len(slept) - 1)
          /\ \A k \in 1..Len(configs) :
                k > i + MAX_CONCURRENT_REQUESTS => req[k] = Idle
    /\ pc = "returned" =>
          Len(slept) = IF Len(configs) <= MAX_CONCURRENT_REQUESTS THEN 0
                       ELSE ChunkCount(Len(configs)) - 1

InterBatchDelaysWitness ==
    /\ pc = "returned"
    /\ Len(configs) > MAX_CONCURRENT_REQUESTS
    /\ slept = <<BATCH_DELAY_MS>>
    /\ Len(results) = Len(configs)

----------------------------------------------------------------------------
(* The strategy parameter of the API requests, checked under SpecSingle *)

(* the strategies of the requests the operation has made *)
SentStrategies(s) == { c \in 1..Len(single.calls) : single.calls[c].strategy = s }

(* C13: every PageSpeed API request carries strategy mobile or desktop, in *)
(* the try block and on the retry path alike, and a 'both' selection makes *)
(* exactly one mobile and one desktop request.                             *)
OnlyDeviceStrategiesSent ==
    /\ \A c \in 1..Len(single.calls) : single.calls[c].strategy \in DeviceStrategies
    /\ \A k \in 1..Len(configs) : configs[k].strategy \in DeviceStrategies
    /\ (strategy = "both" /\ single.pc \in {"first", "returned"}) =>
          /\ Cardinality(SentStrategies("mobile")) = 1
          /\ Cardinality(SentStrategies("desktop")) = 1

----------------------------------------------------------------------------
(* The content-type probe, checked under SpecRequest *)

(* C14: validateUrlContentType never throws; a probe request that fails    *)
(* gives isValid = true with contentType 'unknown', so the call goes on to *)
(* the PageSpeed API request instead of ending as INVALID_CONTENT_TYPE.    *)
ProbeFailureLetsThrough ==
    /\ validateUrlContentType(PageUrl, ProbeFails)
           = [isValid |-> TRUE, contentType |-> <<"unknown">>]
    /\ \A k \in 1..Len(req) :
          /\ req[k].pc # "threw"
          /\ req[k].probed = ProbeFails =>
                /\ req[k].sent >= 1
                /\ req[k].result.errorType # INVALID_CONTENT_TYPE

ProbeFailureLetsThroughWitness ==
    /\ req[1].probed = ProbeFails
    /\ req[1].pc = "settled"
    /\ req[1].sent = 1
    /\ req[1].result = SuccessResult(1)

----------------------------------------------------------------------------
(* Properties of the normalizeUrl functions, checked under SpecNormalize *)

(* the hostname of a URL text has a dot *)
HasDot(host) == includes(Dotted(host), ".")

BlockedHosts ==
    {<<"127", "0", "0", "1">>, <<"0", "0", "0", "0">>, <<"::1">>,
     <<"example", "com">>, <<"test", "com">>}

(* the entries of batchNormalizeUrls that have no error field *)
GoodPairs == { n \in 1..Len(norm.pairs) : ~norm.pairs[n].error }

(* C15, as stated: every entry of batchNormalizeUrls without an error has  *)
(* a normalized URL that starts with https://, whose host has a dot or is  *)
(* localhost, and whose host is not a blocked loopback or test address.    *)
NormalizedIsAllowedHttps ==
    \A n \in GoodPairs :
        LET parts == parseInput(norm.pairs[n].normalized)
        IN  /\ Head(norm.pairs[n].normalized) = "https://"
            /\ HasDot(parts.host) \/ parts.host = <<"localhost">>
            /\ parts.host \notin BlockedHosts

(* C15, amended: every entry of batchNormalizeUrls without an error has an *)
(* absolute normalized URL that starts with https:// and whose host has a  *)
(* dot; no host is blocked, so a loopback or test address with a dot gets  *)
(* an entry without an error, and localhost gets an error.                 *)
NormalizedIsHttpsWithDot ==
    /\ \A n \in GoodPairs :
          LET parts == parseInput(norm.pairs[n].normalized)
          IN  /\ Head(norm.pairs[n].normalized) = "https://"
              /\ parts.scheme = "https://"
              /\ HasDot(parts.host)
              /\ parts.path # <<>>
              /\ ~parts.pad /\ ~parts.junk
    /\ norm.step >= 1 =>
          /\ Len(norm.pairs) = 1
          /\ norm.pairs[1].original = rawUrl
          /\ (rawUrl.host \in BlockedHosts => ~norm.pairs[1].error)
          /\ (rawUrl.host = <<"localhost">> => norm.pairs[1].error)

NormalizedIsHttpsWithDotWitness ==
    /\ norm.step >= 1
    /\ rawUrl.scheme = "http://"
    /\ rawUrl.host = <<"example", "com">>
    /\ GoodPairs = {1}
    /\ norm.pairs[1].normalized = <<"https://", "example", ".", "com", "/">>

(* C16: each normalizeUrl is idempotent: applied to a string it returned,  *)
(* it succeeds and returns the same string.                                *)
NormalizeIdempotent ==
    norm.step = 2 =>
        \A v \in Versions : norm.first[v].ok => norm.second[v] = norm.first[v]

(* C17, as stated: for an input with a hostname, normalizeUrl succeeds     *)
(* exactly when the hostname has a dot or is localhost.                    *)
HostnameRule ==
    (norm.step >= 1 /\ rawUrl.host # <<>>) =>
        \A v \in {"utils", "rewritten"} :
            norm.first[v].ok <=> (HasDot(rawUrl.host) \/ rawUrl.host = <<"localhost">>)

(* C17, amended: for an input with a hostname, normalizeUrl of urlUtils    *)
(* succeeds exactly when the hostname has a dot, so localhost fails like   *)
(* notadomain; the rewritten normalizeUrl of the monolithic node file      *)
(* succeeds exactly when the hostname has a dot or is localhost.           *)
HostnameRuleByVersion ==
    (norm.step >= 1 /\ rawUrl.host # <<>>) =>
        /\ norm.first["utils"].ok <=> HasDot(rawUrl.host)
        /\ norm.first["rewritten"].ok
               <=> (HasDot(rawUrl.host) \/ rawUrl.host = <<"localhost">>)

HostnameRuleByVersionWitness ==
    /\ norm.step >= 1
    /\ rawUrl.host = <<"localhost">>
    /\ ~norm.first["utils"].ok
    /\ norm.first["rewritten"].ok

(* C18: the URL a normalizeUrl returns has none of the seven tracking      *)
(* parameters and keeps every other parameter of the input, in order and   *)
(* with its value.                                                         *)
TrackingParamsRemoved ==
    norm.step >= 1 =>
        \A v \in {"utils", "monolith"} :
            norm.first[v].ok =>
                parseInput(norm.first[v].url).query
                    = SelectSeq(rawUrl.query, LAMBDA q : q.name \notin paramsToRemove)

----------------------------------------------------------------------------
(* C19: the filters of applyUrlFilters *)

Range(s) == { s[k] : k \in DOMAIN s }

(* a URL contains a token, letter case aside *)
ContainsToken(url, token) == Contains(toLowerCase(url), toLowerCase(token))

(* a URL matches a token of the later helpers: a token between slashes is  *)
(* the text between them                                                   *)
MatchesToken(url, token) ==
    IF Len(token) >= 2 /\ token[1] = "/" /\ token[Len(token)] = "/"
    THEN ContainsToken(url, SubSeq(token, 2, Len(token) - 1))
    ELSE ContainsToken(url, token)

(* the urlType rule *)
PassesUrlType(url, f) ==
    CASE f.urlType = "pages" -> \A mark \in PostMarks : ~ContainsToken(url, mark)
      [] f.urlType = "posts" -> \E mark \in PostMarks : ContainsToken(url, mark)
      [] OTHER -> TRUE

PassesAll(url, f) ==
    /\ f.includePattern # <<>> =>
          \E k \in DOMAIN f.includePattern : ContainsToken(url, f.includePattern[k])
    /\ \A k \in DOMAIN f.excludePattern : ~ContainsToken(url, f.excludePattern[k])
    /\ PassesUrlType(url, f)

PassesAllMatching(url, f) ==
    /\ f.includePattern # <<>> =>
          \E k \in DOMAIN f.includePattern : MatchesToken(url, f.includePattern[k])
    /\ \A k \in DOMAIN f.excludePattern : ~MatchesToken(url, f.excludePattern[k])
    /\ PassesUrlType(url, f)

(* what each version takes for a non-HTML resource *)
LooksNonHtml(version, url) ==
    IF version = "helpers" THEN ~isValidPageUrl(url)
    ELSE \E ext \in nonHtmlExtensions : endsWith(toLowerCase(url), ext)

Normalized(raw) == normalizeUrl(parseInput(raw))

(* the places of the input URLs that normalize, pass the three filters as  *)
(* claimed and do not look like a non-HTML resource                        *)
Qualifying(version, urls, f) ==
    { k \in DOMAIN urls :
        /\ Normalized(urls[k]).ok
        /\ PassesAll(Normalized(urls[k]).url, f)
        /\ ~LooksNonHtml(version, Normalized(urls[k]).url) }

QualifyingMatching(version, urls, f) ==
    { k \in DOMAIN urls :
        /\ Normalized(urls[k]).ok
        /\ PassesAllMatching(Normalized(urls[k]).url, f)
        /\ ~LooksNonHtml(version, Normalized(urls[k]).url) }

ExampleUrls ==
    <<SitemapPage(<<"blog", "a">>), SitemapPage(<<"page", "b">>),
      SitemapPage(<<"admin", "c">>)>>

IsExample ==
    /\ sitemap.urls = ExampleUrls
    /\ sitemap.filters.includePattern = <<>>
    /\ sitemap.filters.excludePattern = <<<<"/", "admin", "/">>>>
    /\ sitemap.filters.urlType = "pages"

(* C19 as stated: every URL applyUrlFilters returns contains an include    *)
(* token (when there is one), contains no exclude token and satisfies the  *)
(* urlType rule; every input URL that normalizes, satisfies the three and  *)
(* is no non-HTML resource is returned while the count is within maxUrls;  *)
(* the example of three URLs yields exactly the page /page/b.              *)
FiltersCompose ==
    sitemap.pc = "filtered" =>
        \A version \in FilterVersions :
            LET out == sitemap.filtered[version]
                f == sitemap.filters
                passing == Qualifying(version, sitemap.urls, f)
            IN  /\ \A k \in DOMAIN out : PassesAll(out[k], f)
                /\ Cardinality(passing) <= maxUrls(f) =>
                      \A k \in passing : Normalized(sitemap.urls[k]).url \in Range(out)
                /\ IsExample => out = <<SitemapPage(<<"page", "b">>)>>

(* C19, amended: a token is found in a URL letter case aside, and in the   *)
(* later helpers a token between slashes is found when the text between    *)
(* the slashes is; the helpers of helpers/sitemapHelpers.ts return one URL *)
(* of those that differ in letter case only.  With that, every returned    *)
(* URL passes the three filters, every input URL that normalizes, passes   *)
(* them and is no non-HTML resource is returned (up to letter case in      *)
(* helpers/sitemapHelpers.ts) while the count is within maxUrls, and the   *)
(* example yields exactly the page /page/b.                                *)
FiltersComposeByVersion ==
    sitemap.pc = "filtered" =>
        LET f == sitemap.filters
            helpers == sitemap.filtered["helpers"]
            enhanced == sitemap.filtered["enhanced"]
            passing == Qualifying("helpers", sitemap.urls, f)
            matching == QualifyingMatching("enhanced", sitemap.urls, f)
        IN  /\ \A k \in DOMAIN helpers : PassesAll(helpers[k], f)
            /\ Cardinality(passing) <= maxUrls(f) =>
                  \A k \in passing : \E j \in DOMAIN helpers :
                      toLowerCase(helpers[j]) = toLowerCase(Normalized(sitemap.urls[k]).url)
            /\ \A k \in DOMAIN enhanced : PassesAllMatching(enhanced[k], f)
            /\ Cardinality(matching) <= maxUrls(f) =>
                  \A k \in matching : Normalized(sitemap.urls[k]).url \in Range(enhanced)
            /\ IsExample => /\ helpers = <<SitemapPage(<<"page", "b">>)>>
                            /\ enhanced = <<SitemapPage(<<"page", "b">>)>>

(* the example of C19 has been filtered by both versions *)
FiltersComposeByVersionWitness ==
    /\ sitemap.pc = "filtered"
    /\ IsExample
    /\ sitemap.filters.maxUrls = Given(2)
    /\ sitemap.filtered["helpers"] = <<SitemapPage(<<"page", "b">>)>>
    /\ sitemap.filtered["enhanced"] = <<SitemapPage(<<"page", "b">>)>>

----------------------------------------------------------------------------
(* C20: the max URLs limit *)

(* maxUrls as C20 reads it: 50 when it is not set *)
MaxUrlsSetting(filters) ==
    IF filters.maxUrls = Unset THEN DEFAULT_MAX_URLS ELSE filters.maxUrls[1]

(* C20 as stated: the list fetchSitemapUrls returns has at most maxUrls    *)
(* entries (50 when maxUrls is not set), for a sitemap and for a sitemap   *)
(* index, and so has the list the operation analyzes.                      *)
ReturnedWithinMaxUrls ==
    sitemap.pc \in {"returned", "analyzing"} =>
        /\ Len(sitemap.returned) <= MaxUrlsSetting(sitemap.filters)
        /\ Len(sitemap.analyzed) <= MaxUrlsSetting(sitemap.filters)

(* C20, amended: with maxUrls a positive number, or 50 when it is not set  *)
(* or 0, fetchSitemapUrls of helpers/sitemapHelpers.ts returns at most     *)
(* maxUrls URLs for a sitemap and for a sitemap index; fetchSitemapUrls of *)
(* the later helpers returns at most maxUrls URLs for a sitemap and at     *)
(* most maxUrls URLs for each nested sitemap of a sitemap index, and the   *)
(* operation that called it analyzes the first maxUrls of them.            *)
AnalyzedWithinMaxUrls ==
    sitemap.pc \in {"returned", "analyzing"} =>
        /\ Len(sitemap.returned)
              <= maxUrls(sitemap.filters)
                    * (IF sitemap.version = "helpers" \/ sitemap.nested = 0
                       THEN 1 ELSE sitemap.nested)
        /\ Len(sitemap.analyzed) <= maxUrls(sitemap.filters)

(* a sitemap index gave more than maxUrls URLs and the operation analyzes  *)
(* maxUrls of them                                                         *)
AnalyzedWithinMaxUrlsWitness ==
    /\ sitemap.pc = "analyzing"
    /\ sitemap.version = "enhanced"
    /\ sitemap.nested = 2
    /\ Len(sitemap.returned) > maxUrls(sitemap.filters)
    /\ Len(sitemap.analyzed) = maxUrls(sitemap.filters)

----------------------------------------------------------------------------
(* C21: when a sitemap operation has returned, its first item is the       *)
(* metadata record, totalUrlsFound is the number of URLs found in the      *)
(* sitemap before filtering and truncation, urlsToAnalyze is the number of *)
(* URLs analyzed, and the items after the first are exactly urlsToAnalyze  *)
(* analysis results.                                                       *)
MetadataThenResults ==
    sitemap.pc = "done" =>
        /\ Head(sitemap.output) = "sitemap-metadata"
        /\ sitemap.metadata.totalUrlsFound = sitemap.found
        /\ sitemap.metadata.urlsToAnalyze = Len(sitemap.analyzed)
        /\ Tail(sitemap.output) = Items(sitemap.metadata.urlsToAnalyze, "result")

----------------------------------------------------------------------------
(* C22: every category score of a formatted result is an integer of 0..100 *)
(* (0.873 gives 87), and a category that is missing from the response      *)
(* gives 0, never null or undefined.                                       *)
IsScore(x) == x \in 0..100

Formatters == {"formatResponse", "formatEnhancedResponse"}

ScoresAreIntegers ==
    report.pc = "formatted" =>
        \A f \in Formatters :
            report.scores[f] # NoScores =>
                \A c \in DOMAIN report.scores[f] :
                    /\ IsScore(report.scores[f][c])
                    /\ (c \in DOMAIN report.response.categories
                          /\ report.response.categories[c] = NoCategory)
                       => report.scores[f][c] = 0

(* C22, amended: the scores of performance, accessibility, bestPractices   *)
(* and seo are round(score * 100), integers of 0..100 (0.873 gives 87, a   *)
(* missing category or a null score gives 0); the pwa score of             *)
(* formatEnhancedResponse is undefined when the response has no pwa        *)
(* category and such an integer otherwise.                                 *)
ScoresAreIntegersButPwa ==
    (report.pc = "formatted" /\ ~report.response.error) =>
        \A f \in Formatters :
            /\ \A c \in FourCategories :
                  LET score == report.response.categories[c]
                      out == report.scores[f][c]
                  IN  /\ IsScore(out)
                      /\ score \in {NoCategory, NullScore} => out = 0
                      /\ score \in 0..1000 => /\ 10 * out - 5 <= score
                                              /\ score <= 10 * out + 5
                      /\ score = 873 => out = 87
            /\ f = "formatEnhancedResponse" =>
                  LET pwa == report.scores[f]["pwa"]
                  IN  IF report.response.categories["pwa"] = NoCategory
                      THEN pwa = NoCategory
                      ELSE IsScore(pwa)

ScoresAreIntegersButPwaWitness ==
    /\ report.pc = "formatted"
    /\ ~report.response.error
    /\ report.response.categories["performance"] = 873
    /\ report.response.categories["seo"] = NoCategory
    /\ report.scores["formatResponse"]["performance"] = 87
    /\ report.scores["formatEnhancedResponse"]["seo"] = 0

----------------------------------------------------------------------------
(* C23: scoreDifferences[c] = current[c] - baseline[c] for each category,  *)
(* and improvement is true exactly when the improving deltas (positive     *)
(* score deltas and negative metric deltas) outnumber the regressing ones  *)
(* (negative score deltas and positive metric deltas); a tie gives false.  *)
(* When performance goes from 60 to 80 and all else is equal,              *)
(* scoreDifferences.performance = 20 and improvement = true.               *)
Improving ==
    Cardinality({ c \in FourCategories :
                    report.current.scores[c] > report.baseline.scores[c] })
    + Cardinality({ m \in DOMAIN report.comparison.metricDifferences :
                      report.comparison.metricDifferences[m] < 0 })

Regressing ==
    Cardinality({ c \in FourCategories :
                    report.current.scores[c] < report.baseline.scores[c] })
    + Cardinality({ m \in DOMAIN report.comparison.metricDifferences :
                      report.comparison.metricDifferences[m] > 0 })

OnlyPerformanceChanged ==
    /\ report.baseline.scores["performance"] = 60
    /\ report.current.scores["performance"] = 80
    /\ \A c \in FourCategories \ {"performance"} :
          report.current.scores[c] = report.baseline.scores[c]
    /\ report.current.metrics = report.baseline.metrics

ImprovementByMajority ==
    report.pc = "compared" =>
        /\ \A c \in FourCategories :
              report.comparison.scoreDifferences[c]
                  = report.current.scores[c] - report.baseline.scores[c]
        /\ \A m \in DOMAIN report.comparison.metricDifferences :
              report.comparison.metricDifferences[m]
                  = report.current.metrics[m] - report.baseline.metrics[m]
        /\ report.comparison.improvement <=> (Improving > Regressing)
        /\ Improving = Regressing => ~report.comparison.improvement
        /\ OnlyPerformanceChanged =>
              /\ report.comparison.scoreDifferences["performance"] = 20
              /\ report.comparison.improvement

(* a tie of one improving and one regressing delta *)
ImprovementByMajorityWitness ==
    /\ report.pc = "compared"
    /\ Improving = 1
    /\ Regressing = 1
    /\ report.comparison.scoreDifferences["performance"] = 20
    /\ ~report.comparison.improvement

----------------------------------------------------------------------------
(* C24: a response without lighthouseResult is a failure that is retried:  *)
(* after such an answer the request waits for its next attempt while       *)
(* attempts remain, and it settles only after the last attempt, with an    *)
(* error result, never with a success.                                     *)
MalformedIsRetried ==
    \A k \in DOMAIN req :
        req[k].last = "malformed" =>
            /\ req[k].pc \in {"backoff", "api", "settled"}
            /\ req[k].pc = "backoff" => req[k].attempt < maxRetries(additionalFields)
            /\ req[k].pc = "settled" =>
                  /\ req[k].result.error
                  /\ req[k].result.errorType = UNKNOWN
                  /\ req[k].attempt = maxRetries(additionalFields)
                  /\ req[k].result.retryCount = maxRetries(additionalFields)
                  /\ req[k].sent = maxRetries(additionalFields) + 1

MalformedIsRetriedWitness ==
    \E k \in DOMAIN req :
        /\ req[k].last = "malformed"
        /\ req[k].pc = "settled"
        /\ req[k].sent = 3
        /\ req[k].result.error

----------------------------------------------------------------------------
(* C25: an error with status 403 whose message mentions 'quota' or         *)
(* 'billing' is classified QUOTA_EXCEEDED and is not retried.              *)
Mentions(message, words) == \E w \in words : includes(toLowerCase(message), w)

QuotaExceededNotRetried ==
    (/\ report.pc = "classified"
     /\ report.error.status = 403
     /\ Mentions(report.error.message, {"quota", "billing"}))
    => /\ report.errorType = QUOTA_EXCEEDED
       /\ ~report.canRetry

----------------------------------------------------------------------------
(* C26: an error without a status whose message contains ECONNREFUSED or   *)
(* ENOTFOUND, in upper case as Node.js reports them, is classified         *)
(* NETWORK_ERROR.                                                          *)
ConnectionFailureIsNetworkError ==
    (/\ report.pc = "classified"
     /\ report.error.status = 0
     /\ \E w \in {"ECONNREFUSED", "ENOTFOUND"} : includes(report.error.message, w))
    => report.errorType = NETWORK_ERROR

----------------------------------------------------------------------------
(* C27: the wait before retry number k of a request (k = 0 for the first   *)
(* retry) is min(1000 * 2^k, 10000) ms, that is 1000, 2000, 4000, 8000 and *)
(* then 10000; the waits never decrease, never exceed RETRY_DELAY_MAX, and *)
(* no wait follows the last attempt: a settled request has waited once     *)
(* less than it has sent.                                                  *)
ExpectedWaits == <<1000, 2000, 4000, 8000, 10000>>

BackoffSchedule ==
    \A k \in DOMAIN req :
        LET waits == req[k].waits
        IN  /\ Len(waits) <= maxRetries(additionalFields)
            /\ \A n \in 1..Len(waits) :
                  /\ waits[n] = ExpectedWaits[Min(n, 5)]
                  /\ waits[n] <= RETRY_DELAY_MAX
                  /\ n > 1 => waits[n - 1] <= waits[n]
            /\ req[k].pc \in {"api", "settled"} /\ req[k].sent > 0
                  => Len(waits) = req[k].sent - 1
            /\ req[k].pc = "backoff" => Len(waits) = req[k].sent

BackoffScheduleWitness ==
    \E k \in DOMAIN req :
        /\ req[k].pc = "settled"
        /\ req[k].waits = ExpectedWaits
        /\ req[k].sent = 6

----------------------------------------------------------------------------
(* C28: for a URL that matches isLikelyXmlUrl no HTTP request is issued,   *)
(* neither the HEAD probe nor a PageSpeed API request, and the request     *)
(* ends with an INVALID_CONTENT_TYPE error result with canRetry = false.   *)
ShortCircuited(k) ==
    /\ ~req[k].head
    /\ req[k].probed = NoProbe
    /\ req[k].sent = 0
    /\ req[k].pc \in {"probe", "settled"}
    /\ req[k].pc = "settled" =>
          /\ req[k].result.error
          /\ req[k].result.errorType = INVALID_CONTENT_TYPE
          /\ ~req[k].result.canRetry

XmlUrlNeverRequested ==
    \A k \in DOMAIN req :
        (req[k].pc # "idle" /\ isLikelyXmlUrl(configs[k].url)) => ShortCircuited(k)

(* C28, amended: the same for a request whose content validation is not    *)
(* skipped (skipContentValidation is not set).                             *)
XmlUrlShortCircuits ==
    \A k \in DOMAIN req :
        (/\ req[k].pc # "idle"
         /\ configs[k].url = XmlUrl
         /\ ~additionalFields.skipContentValidation)
        => ShortCircuited(k)

XmlUrlShortCircuitsWitness ==
    \E k \in DOMAIN req :
        /\ configs[k].url = XmlUrl
        /\ ~additionalFields.skipContentValidation
        /\ req[k].pc = "settled"
        /\ req[k].sent = 0
        /\ req[k].result.errorType = INVALID_CONTENT_TYPE

----------------------------------------------------------------------------
(* C29: while a sitemap index is processed, a nested sitemap that cannot   *)
(* be fetched or parsed is skipped: every nested sitemap of the index (of  *)
(* the first 10, or 5 in the later helpers) is still requested, one after  *)
(* the other, the URLs of those that succeeded are what fetchSitemapUrls   *)
(* goes on with, and the operation fails after an index only when no URL   *)
(* is left at all.                                                         *)
RECURSIVE Concat(_)
Concat(lists) == IF lists = <<>> THEN <<>> ELSE Head(lists) \o Concat(Tail(lists))

----------------------------------------------------------------------------
(* C30: during a batchProcessUrls run the 'completed' value passed to      *)
(* onProgress never decreases from one call to the next, and every call's  *)
(* value is the number of requests that have settled so far, in whatever   *)
(* order the requests of a chunk settle.                                   *)
ProgressCountsSettled ==
    /\ ~progress.decreased
    /\ ~progress.miscounted
    /\ progress.calls > 0 =>
          progress.last = Cardinality({ k \in DOMAIN req : req[k].pc = "settled" })

====
